---- MODULE Spec2Model ----
(***************************************************************************)
(* Contract management module (Django app "contracts"): entity store,      *)
(* access-control evaluator, approval sub-workflow, audit recorder and     *)
(* the creation wizard, modelled from models.py, permissions.py, forms.py, *)
(* services.py and views.py.                                               *)
(***************************************************************************)
EXTENDS Integers, Sequences, FiniteSets, TLC

(***************************************************************************)
(* Bounds of the model.                                                    *)
(***************************************************************************)
MaxFiles == 3
MaxVersions == 3
MaxShares == 2
MaxApprovals == 1
MaxClock == 1
MaxOps == 2
MaxContracts == 2
MaxCommits == 1
MaxWizardSteps == 2
MaxRequests == 2

NULL == "NULL"
NoAttr == "NoAttr"

(***************************************************************************)
(* permissions.py: roles and users.                                        *)
(***************************************************************************)
LEGAL_ADMIN == "LEGAL_ADMIN"
LEGAL_USER == "LEGAL_USER"
FINANCE_VIEWER == "FINANCE_VIEWER"
USER == "USER"
ALL_ROLES == {LEGAL_ADMIN, LEGAL_USER, FINANCE_VIEWER, USER}

UserIds == {"u1", "u2", "u3"}
Departments == {"d1", "d2"}

\* values of the optional user.role attribute: absent, None, or a role
RoleAttrs == {NoAttr, NULL} \cup ALL_ROLES
GroupSets == {{}, {"Legal Admin"}, {"legal_user"}, {"Legal User", "Finance Viewer"},
              {"Finance Viewer"}}

AnonymousUser ==
    [id |-> "anon", is_authenticated |-> FALSE, is_superuser |-> FALSE,
     role |-> NoAttr, groups |-> {}, is_staff |-> FALSE, department |-> NULL]

\* every shape a request.user can have
UserProfiles ==
    {AnonymousUser} \cup
    [id : UserIds, is_authenticated : {TRUE}, is_superuser : BOOLEAN,
     role : RoleAttrs, groups : GroupSets, is_staff : BOOLEAN,
     department : {NULL} \cup Departments]

\* the accounts that issue requests in the specifications below
User(id) ==
    CASE id = "u1" -> [id |-> "u1", is_authenticated |-> TRUE, is_superuser |-> FALSE,
                       role |-> NoAttr, groups |-> {"Legal User"}, is_staff |-> FALSE,
                       department |-> "d1"]
      [] id = "u2" -> [id |-> "u2", is_authenticated |-> TRUE, is_superuser |-> FALSE,
                       role |-> NoAttr, groups |-> {"Finance Viewer"}, is_staff |-> FALSE,
                       department |-> "d2"]
      [] id = "u3" -> [id |-> "u3", is_authenticated |-> TRUE, is_superuser |-> TRUE,
                       role |-> NoAttr, groups |-> {}, is_staff |-> TRUE,
                       department |-> NULL]

Accounts == {User(id) : id \in UserIds}

get_user_role(user) ==
    IF ~user.is_authenticated THEN NULL
    ELSE IF user.is_superuser THEN LEGAL_ADMIN
    ELSE IF user.role # NoAttr THEN user.role
    ELSE IF "Legal Admin" \in user.groups \/ "legal_admin" \in user.groups THEN LEGAL_ADMIN
    ELSE IF "Legal User" \in user.groups \/ "legal_user" \in user.groups THEN LEGAL_USER
    ELSE IF "Finance Viewer" \in user.groups \/ "finance_viewer" \in user.groups
         THEN FINANCE_VIEWER
    ELSE IF user.is_staff THEN LEGAL_USER
    ELSE USER

is_legal_admin(user) == get_user_role(user) = LEGAL_ADMIN

is_legal_user(user) == get_user_role(user) \in {LEGAL_ADMIN, LEGAL_USER}

is_finance_viewer(user) == get_user_role(user) = FINANCE_VIEWER

can_create_contract(user) == is_legal_user(user)

(***************************************************************************)
(* The entity store (models.py).  Every table is the sequence of its rows; *)
(* a row's primary key is its position.                                    *)
(***************************************************************************)
VARIABLES
    contracts,   \* Contract rows
    files,       \* ContractFile rows
    versions,    \* ContractVersion rows
    shares,      \* ContractShare rows
    approvals,   \* AdditionalApproval rows
    audit_log,   \* AuditLog rows, in creation order
    clock,       \* timezone.now()
    session,     \* request.session of the one browser session
    response,    \* outcome of the last request
    requests     \* the requests in flight, each with its position and its locals

vars ==
    <<contracts, files, versions, shares, approvals, audit_log, clock, session, response,
      requests>>

Store ==
    [contracts |-> contracts, files |-> files, versions |-> versions,
     shares |-> shares, approvals |-> approvals, audit_log |-> audit_log]

EmptyStore ==
    [contracts |-> <<>>, files |-> <<>>, versions |-> <<>>,
     shares |-> <<>>, approvals |-> <<>>, audit_log |-> <<>>]

Commit(s) ==
    /\ contracts' = s.contracts
    /\ files' = s.files
    /\ versions' = s.versions
    /\ shares' = s.shares
    /\ approvals' = s.approvals
    /\ audit_log' = s.audit_log

Rows(table) == DOMAIN table

\* a datetime column: None is the empty tuple, a value is <<t>>
None == <<>>
At(t) == <<t>>

\* a Python dict with string keys: d.get(k, default), d[k] = v, d.pop(k, None)
EmptyDict == [k \in {} |-> NULL]
dict_get(d, k, default) == IF k \in DOMAIN d THEN d[k] ELSE default
dict_set(d, k, v) == [x \in DOMAIN d \cup {k} |-> IF x = k THEN v ELSE d[x]]
dict_pop_keeps(d, k) == d

dict_pop(d, k) == [x \in DOMAIN d \ {k} |-> d[x]]

(***************************************************************************)
(* Text inputs.  A text is a sequence of characters; CharField cleaning    *)
(* strips the surrounding whitespace.                                      *)
(***************************************************************************)
Texts == {<<>>, <<" ">>, <<"x">>, <<" ", "x", " ">>}

RECURSIVE lstrip(_)
lstrip(t) == IF t # <<>> /\ Head(t) = " " THEN lstrip(Tail(t)) ELSE t

RECURSIVE rstrip(_)
rstrip(t) ==
    IF t # <<>> /\ t[Len(t)] = " " THEN rstrip(SubSeq(t, 1, Len(t) - 1)) ELSE t

strip(t) == rstrip(lstrip(t))

(***************************************************************************)
(* services.py: AuditLogService.                                           *)
(***************************************************************************)
AuditLogService_log_skipped(s, contract, action, actor, metadata) == s

AuditLogService_log(s, contract, action, actor, metadata) ==
    [s EXCEPT !.audit_log =
        Append(@, [contract |-> contract, action |-> action, actor |-> actor.id,
                   metadata |-> metadata])]

(***************************************************************************)
(* models.py: Contract, ContractFile, ContractVersion, ContractShare.      *)
(***************************************************************************)
DRAFT == "DRAFT"
PENDING == "PENDING"
ACTIVE == "ACTIVE"
EXPIRED == "EXPIRED"
TERMINATED == "TERMINATED"
ARCHIVED == "ARCHIVED"
ContractStatus == {DRAFT, PENDING, ACTIVE, EXPIRED, TERMINATED, ARCHIVED}

\* the column defaults of Contract, for the keys a caller leaves out
ContractDefaults ==
    [title |-> "", status |-> DRAFT, owner |-> NULL,
     created_by |-> NULL, bu_team |-> NULL, is_confidential |-> FALSE,
     contract_number |-> <<>>, tags |-> {}, category |-> "OTHER",
     customer_or_vendor_name |-> <<>>, effective_date |-> None, end_date |-> None,
     renewal_notice_date |-> None, value_amount |-> None]

\* an uploaded file; NoFile stands for no upload
NoFile == [name |-> "", ext |-> "", size |-> 0]

NewPk(table) == Len(table) + 1

Put(table, pk, row) ==
    IF pk \in DOMAIN table THEN [table EXCEPT ![pk] = row] ELSE Append(table, row)

\* Contract.save: the number is generated when the row has none
Contract_save(table, pk, row) ==
    Put(table, pk,
        IF row.contract_number = <<>>
        THEN [row EXCEPT !.contract_number = <<"CNT", ToString(clock), ToString(pk)>>]
        ELSE row)

ContractFile_save_no_demotion(table, pk, row) == Put(table, pk, row)

\* ContractFile.save, first statement: for a primary file, the UPDATE that demotes
\* the contract's other primary files
demote_other_primaries(table, pk, row) ==
    [i \in DOMAIN table |->
        IF row.is_primary /\ table[i].contract = row.contract
           /\ table[i].is_primary /\ i # pk
        THEN [table[i] EXCEPT !.is_primary = FALSE]
        ELSE table[i]]

\* ContractFile.save: the demotion, then super().save()
ContractFile_save(table, pk, row) ==
    Put(demote_other_primaries(table, pk, row), pk, row)

\* unique_together = ['contract', 'version_number']
version_unique(table, row) ==
    \A i \in DOMAIN table :
        ~(table[i].contract = row.contract
          /\ table[i].version_number = row.version_number)

ContractVersion_create_unconstrained(table, row) == Append(table, row)

\* ContractVersion.objects.create: the insert fails on a duplicate number
ContractVersion_create(table, row) ==
    IF version_unique(table, row) THEN Append(table, row) ELSE table

share_unconstrained(row) == TRUE

\* CheckConstraint share_user_or_department
share_user_or_department(row) ==
    \/ row.shared_with_user # NULL /\ row.shared_with_department = NULL
    \/ row.shared_with_user = NULL /\ row.shared_with_department # NULL

VIEW == "VIEW"
EDIT == "EDIT"
AccessLevel == {VIEW, EDIT}

(***************************************************************************)
(* services.py: ContractOperationsService.                                 *)
(***************************************************************************)
_create_contract_file(s, user, c, file, is_primary, description) ==
    [s EXCEPT !.files =
        ContractFile_save(@, NewPk(@),
            [contract |-> c, original_filename |-> file.name,
             is_primary |-> is_primary, description |-> description,
             uploaded_by |-> user.id])]

create_contract_version_with_file(s, user, data, file) ==
    LET pk == NewPk(s.contracts)
        row == [data EXCEPT !.created_by = user.id,
                            !.owner = IF data.owner = NULL THEN user.id ELSE data.owner,
                            !.tags = {}]
        s1 == [s EXCEPT !.contracts = Contract_save(@, pk, row)]
        s2 == IF data.tags # {}
              THEN [s1 EXCEPT !.contracts[pk].tags = data.tags] ELSE s1
        s3 == IF file # NoFile
              THEN _create_contract_file(s2, user, pk, file, TRUE, "") ELSE s2
        s4 == IF file # NoFile
              THEN [s3 EXCEPT !.versions =
                       ContractVersion_create(@,
                           [contract |-> pk, version_number |-> 1,
                            label |-> "Initial Version", file |-> "",
                            created_by |-> user.id])]
              ELSE s3
    IN AuditLogService_log(s4, pk, "CREATE_CONTRACT", user,
           [title |-> s4.contracts[pk].title, status |-> s4.contracts[pk].status])

create_contract(s, user, data, file) ==
    LET pk == NewPk(s.contracts)
        row == [data EXCEPT !.created_by = user.id,
                            !.owner = IF data.owner = NULL THEN user.id ELSE data.owner,
                            !.tags = {}]
        s1 == [s EXCEPT !.contracts = Contract_save(@, pk, row)]
        s2 == IF data.tags # {}
              THEN [s1 EXCEPT !.contracts[pk].tags = data.tags] ELSE s1
        s3 == IF file # NoFile
              THEN _create_contract_file(s2, user, pk, file, TRUE, "") ELSE s2
        s4 == [s3 EXCEPT !.versions =
                  ContractVersion_create(@,
                      [contract |-> pk, version_number |-> 1,
                       label |-> "Initial Version", file |-> "",
                       created_by |-> user.id])]
    IN AuditLogService_log(s4, pk, "CREATE_CONTRACT", user,
           [title |-> s4.contracts[pk].title, status |-> s4.contracts[pk].status])

change_status_logs_after_save(s, user, c, new_status, reason) ==
    LET s1 == [s EXCEPT !.contracts =
                  Contract_save(@, c, [@[c] EXCEPT !.status = new_status])]
    IN AuditLogService_log(s1, c, "CHANGE_STATUS", user,
           [old_status |-> s1.contracts[c].status, new_status |-> new_status,
            reason |-> reason])

change_status(s, user, c, new_status, reason) ==
    LET old_status == s.contracts[c].status
        s1 == [s EXCEPT !.contracts =
                  Contract_save(@, c, [@[c] EXCEPT !.status = new_status])]
    IN AuditLogService_log(s1, c, "CHANGE_STATUS", user,
           [old_status |-> old_status, new_status |-> new_status, reason |-> reason])

\* for field, value in data.items(): setattr(instance, field, value)
setattr_all(instance, data) ==
    LET value(f) == IF f \in DOMAIN data THEN data[f] ELSE instance[f]
    IN [title |-> value("title"), status |-> value("status"), owner |-> value("owner"),
        created_by |-> value("created_by"), bu_team |-> value("bu_team"),
        is_confidential |-> value("is_confidential"),
        contract_number |-> value("contract_number"), tags |-> instance.tags,
        category |-> value("category"),
        customer_or_vendor_name |-> value("customer_or_vendor_name"),
        effective_date |-> value("effective_date"), end_date |-> value("end_date"),
        renewal_notice_date |-> value("renewal_notice_date"),
        value_amount |-> value("value_amount")]

\* contract is the instance the caller holds; data is a dict of field values
update_contract(s, user, c, contract, data) ==
    LET old_status == contract.status
        fields == dict_pop(data, "tags")
        row == setattr_all(contract, fields)
        s1 == [s EXCEPT !.contracts = Contract_save(@, c, row)]
        s2 == IF "tags" \in DOMAIN data
              THEN [s1 EXCEPT !.contracts[c].tags = data["tags"]] ELSE s1
    IN IF row.status # old_status
       THEN AuditLogService_log(s2, c, "CHANGE_STATUS", user,
                [old_status |-> old_status, new_status |-> row.status])
       ELSE AuditLogService_log(s2, c, "UPDATE_CONTRACT", user,
                [updated_fields |-> DOMAIN fields])

upload_file(s, user, c, file, is_primary, description) ==
    AuditLogService_log(
        _create_contract_file(s, user, c, file, is_primary, description),
        c, "ADD_FILE", user, [filename |-> file.name, is_primary |-> is_primary])

\* contract.versions.order_by('-version_number').first()
last_version_number(table, c) ==
    LET nums == {table[i].version_number : i \in {j \in DOMAIN table : table[j].contract = c}}
    IN IF nums = {} THEN 0 ELSE CHOOSE n \in nums : \A m \in nums : m <= n

next_version_number_off_by_one(table, c) == last_version_number(table, c) + 2

next_version_number(table, c) == last_version_number(table, c) + 1

add_version(s, user, c, label, file) ==
    LET next_version == next_version_number(s.versions, c)
        row == [contract |-> c, version_number |-> next_version, label |-> label,
                file |-> file.name, created_by |-> user.id]
    IN IF version_unique(s.versions, row)
       THEN AuditLogService_log(
                [s EXCEPT !.versions = ContractVersion_create(@, row)],
                c, "ADD_VERSION", user,
                [version_number |-> next_version, label |-> label])
       ELSE s

share_contract(s, user, c, target_user, target_department, access_level) ==
    LET row == [contract |-> c, shared_with_user |-> target_user,
                shared_with_department |-> target_department,
                access_level |-> access_level, shared_by |-> user.id]
    IN IF share_user_or_department(row)
       THEN AuditLogService_log(
                [s EXCEPT !.shares = Append(@, row)],
                c, "SHARE", user,
                [shared_with_user |-> target_user,
                 shared_with_department |-> target_department,
                 access_level |-> access_level])
       ELSE s

(***************************************************************************)
(* permissions.py: the access-control evaluator, read against the store.   *)
(***************************************************************************)
shared_with_user_any_level(c, user, levels) ==
    \E i \in DOMAIN shares :
        /\ shares[i].contract = c
        /\ shares[i].shared_with_user = user.id

shared_with_user(c, user, levels) ==
    \E i \in DOMAIN shares :
        /\ shares[i].contract = c
        /\ shares[i].shared_with_user = user.id
        /\ shares[i].access_level \in levels

shared_with_department(c, user, levels) ==
    /\ user.department # NULL
    /\ \E i \in DOMAIN shares :
        /\ shares[i].contract = c
        /\ shares[i].shared_with_department = user.department
        /\ shares[i].access_level \in levels

has_approval_for(c, user) ==
    \/ \E i \in DOMAIN approvals :
          approvals[i].contract = c /\ approvals[i].approver = user.id
    \/ \E i \in DOMAIN approvals :
          approvals[i].contract = c /\ approvals[i].requested_by = user.id

can_view_contract_ignores_confidential(user, c) ==
    IF ~user.is_authenticated THEN FALSE
    ELSE IF is_legal_admin(user) THEN TRUE
    ELSE IF contracts[c].owner = user.id \/ contracts[c].created_by = user.id THEN TRUE
    ELSE IF shared_with_user(c, user, AccessLevel) THEN TRUE
    ELSE IF shared_with_department(c, user, AccessLevel) THEN TRUE
    ELSE IF user.department # NULL /\ contracts[c].bu_team # NULL
            /\ user.department = contracts[c].bu_team THEN TRUE
    ELSE IF is_finance_viewer(user) THEN TRUE
    ELSE IF is_legal_user(user) /\ has_approval_for(c, user) THEN TRUE
    ELSE FALSE

can_view_contract(user, c) ==
    IF ~user.is_authenticated THEN FALSE
    ELSE IF is_legal_admin(user) THEN TRUE
    ELSE IF contracts[c].owner = user.id \/ contracts[c].created_by = user.id THEN TRUE
    ELSE IF shared_with_user(c, user, AccessLevel) THEN TRUE
    ELSE IF shared_with_department(c, user, AccessLevel) THEN TRUE
    ELSE IF user.department # NULL /\ contracts[c].bu_team # NULL
            /\ user.department = contracts[c].bu_team THEN TRUE
    ELSE IF is_finance_viewer(user) /\ ~contracts[c].is_confidential THEN TRUE
    ELSE IF is_legal_user(user) /\ has_approval_for(c, user) THEN TRUE
    ELSE FALSE

can_edit_contract_owner_first(user, c) ==
    IF ~user.is_authenticated THEN FALSE
    ELSE IF contracts[c].owner = user.id THEN TRUE
    ELSE IF shared_with_user(c, user, {EDIT}) THEN TRUE
    ELSE IF shared_with_department(c, user, {EDIT}) THEN TRUE
    ELSE FALSE

can_edit_contract(user, c) ==
    IF ~user.is_authenticated THEN FALSE
    ELSE IF is_legal_admin(user) THEN TRUE
    ELSE IF contracts[c].owner = user.id THEN TRUE
    ELSE IF shared_with_user(c, user, {EDIT}) THEN TRUE
    ELSE IF shared_with_department(c, user, {EDIT}) THEN TRUE
    ELSE FALSE

can_delete_contract_any_status(user, c) ==
    IF ~user.is_authenticated THEN FALSE
    ELSE IF is_legal_admin(user) THEN TRUE
    ELSE IF contracts[c].owner = user.id THEN TRUE
    ELSE FALSE

can_delete_contract(user, c) ==
    IF ~user.is_authenticated THEN FALSE
    ELSE IF is_legal_admin(user) THEN TRUE
    ELSE IF contracts[c].owner = user.id /\ contracts[c].status = DRAFT THEN TRUE
    ELSE FALSE

can_manage_approvals(user, c) ==
    IF ~user.is_authenticated THEN FALSE
    ELSE IF is_legal_admin(user) THEN TRUE
    ELSE IF contracts[c].owner = user.id THEN TRUE
    ELSE can_edit_contract(user, c)

can_approve_request(user, a) ==
    IF ~user.is_authenticated THEN FALSE
    ELSE IF approvals[a].approver = user.id THEN TRUE
    ELSE IF is_legal_admin(user) THEN TRUE
    ELSE FALSE

can_upload_files(user, c) == can_edit_contract(user, c)

can_add_version(user, c) == can_edit_contract(user, c)

can_change_status(user, c) ==
    IF ~user.is_authenticated THEN FALSE
    ELSE IF is_legal_admin(user) THEN TRUE
    ELSE IF contracts[c].owner = user.id THEN TRUE
    ELSE can_edit_contract(user, c)

can_share_contract_creator(user, c) ==
    IF ~user.is_authenticated THEN FALSE
    ELSE IF is_legal_admin(user) THEN TRUE
    ELSE IF contracts[c].owner = user.id \/ contracts[c].created_by = user.id THEN TRUE
    ELSE FALSE

can_share_contract(user, c) ==
    IF ~user.is_authenticated THEN FALSE
    ELSE IF is_legal_admin(user) THEN TRUE
    ELSE IF contracts[c].owner = user.id THEN TRUE
    ELSE FALSE

(***************************************************************************)
(* Approval sub-workflow: models.AdditionalApproval, services.ApprovalService,*)
(* forms.ApprovalDecisionForm, views.ApprovalDetailView.                   *)
(***************************************************************************)
APPROVED == "APPROVED"
REJECTED == "REJECTED"
CANCELLED == "CANCELLED"
ApprovalStatus == {PENDING, APPROVED, REJECTED, CANCELLED}

create_approval_request(s, user, c, approver, reason) ==
    LET pk == NewPk(s.approvals)
        row == [contract |-> c, requested_by |-> user.id, approver |-> approver,
                reason |-> reason, status |-> PENDING,
                decided_at |-> None, decision_comment |-> <<>>]
    IN AuditLogService_log(
           [s EXCEPT !.approvals = Append(@, row)],
           c, "CREATE_APPROVAL", user,
           [approval_id |-> pk, approver |-> approver, reason |-> reason])

process_decision_no_timestamp(s, user, pk, approval, decision, comment) ==
    AuditLogService_log(
        [s EXCEPT !.approvals =
            Put(@, pk, [approval EXCEPT !.status = decision,
                                        !.decision_comment = comment])],
        approval.contract, IF decision = APPROVED THEN "APPROVE" ELSE "REJECT", user,
        [approval_id |-> pk, comment |-> comment])

\* approval is the row as the request loaded it; save() writes it back whole
process_decision(s, user, pk, approval, decision, comment) ==
    LET row == [approval EXCEPT !.status = decision,
                                !.decision_comment = comment,
                                !.decided_at = At(clock)]
        action == IF decision = APPROVED THEN "APPROVE" ELSE "REJECT"
    IN AuditLogService_log(
           [s EXCEPT !.approvals = Put(@, pk, row)],
           row.contract, action, user,
           [approval_id |-> pk, comment |-> comment])

DECISION_CHOICES == {APPROVED, REJECTED}

\* ApprovalDecisionForm: field cleaning, then clean()
ApprovalDecisionForm_cleaned_data(POST) ==
    [decision |-> POST.decision, comment |-> strip(POST.comment)]

ApprovalDecisionForm_is_valid_no_clean(POST) == POST.decision \in DECISION_CHOICES

ApprovalDecisionForm_is_valid(POST) ==
    LET cleaned_data == ApprovalDecisionForm_cleaned_data(POST)
    IN /\ POST.decision \in DECISION_CHOICES
       /\ ~(cleaned_data.decision = REJECTED /\ cleaned_data.comment = <<>>)

\* AdditionalApprovalRequestForm: approver is required, among the active users
AdditionalApprovalRequestForm_is_valid(POST) == POST.approver \in UserIds

\* the response of a request: the view, its outcome and, when a page with a bound
\* form is rendered, the submitted form
NoForm == [bound |-> FALSE]
Respond(view, result) == response' = [view |-> view, result |-> result, form |-> NoForm]
Render(view, result, POST) == response' = [view |-> view, result |-> result, form |-> POST]

DecisionInputs ==
    [decision : DECISION_CHOICES, comment : {<<>>, <<" ">>, <<" ", "x", " ">>}]
    \cup {[decision |-> CANCELLED, comment |-> <<"x">>]}
ApprovalRequestInputs == [approver : {"u2", NULL}, reason : {<<"x">>}]

ApprovalRequestCreateView_post(user, c, POST) ==
    /\ Len(approvals) < MaxApprovals
    /\ UNCHANGED <<clock, session, requests>>
    /\ IF c \notin DOMAIN contracts
       THEN Respond("approval_request", "not_found") /\ Commit(Store)
       ELSE IF ~can_manage_approvals(user, c)
       THEN Respond("approval_request", "denied") /\ Commit(Store)
       ELSE IF AdditionalApprovalRequestForm_is_valid(POST)
       THEN /\ Commit(create_approval_request(Store, user, c, POST.approver,
                                               strip(POST.reason)))
            /\ Respond("approval_request", "created")
       ELSE Respond("approval_request", "invalid") /\ Commit(Store)

ApprovalDetailView_post_no_pending_check(user, pk, POST) ==
    /\ UNCHANGED <<clock, session, requests>>
    /\ IF pk \notin DOMAIN approvals
       THEN Respond("approval_detail", "not_found") /\ Commit(Store)
       ELSE IF ~can_approve_request(user, pk)
       THEN Respond("approval_detail", "denied") /\ Commit(Store)
       ELSE IF ApprovalDecisionForm_is_valid(POST)
       THEN /\ Commit(process_decision(Store, user, pk, approvals[pk],
                          ApprovalDecisionForm_cleaned_data(POST).decision,
                          ApprovalDecisionForm_cleaned_data(POST).comment))
            /\ Respond("approval_detail", "decided")
       ELSE Render("approval_detail", "invalid", POST) /\ Commit(Store)

ApprovalDetailView_post(user, pk, POST) ==
    /\ UNCHANGED <<clock, session, requests>>
    /\ IF pk \notin DOMAIN approvals
       THEN Respond("approval_detail", "not_found") /\ Commit(Store)
       ELSE IF ~can_approve_request(user, pk)
       THEN Respond("approval_detail", "denied") /\ Commit(Store)
       ELSE IF approvals[pk].status # PENDING
       THEN Respond("approval_detail", "already_decided") /\ Commit(Store)
       ELSE IF ApprovalDecisionForm_is_valid(POST)
       THEN /\ Respond("approval_detail", "decided")
            /\ Commit(process_decision(Store, user, pk, approvals[pk],
                          ApprovalDecisionForm_cleaned_data(POST).decision,
                          ApprovalDecisionForm_cleaned_data(POST).comment))
       ELSE Render("approval_detail", "invalid", POST) /\ Commit(Store)

Tick ==
    /\ clock < MaxClock
    /\ clock' = clock + 1
    /\ UNCHANGED <<contracts, files, versions, shares, approvals, audit_log, session,
                   response, requests>>

(***************************************************************************)
(* views.py and forms.py: files, versions, shares, status.                 *)
(***************************************************************************)
MAX_UPLOAD_SIZE == 20 * 1024 * 1024
ALLOWED_EXTENSIONS ==
    {"pdf", "doc", "docx", "xlsx", "xls", "ppt", "pptx", "txt", "jpg", "jpeg", "png"}

\* ContractFileUploadForm: file required, extension validator, clean_file
ContractFileUploadForm_is_valid(POST) ==
    /\ POST.file # NoFile
    /\ POST.file.ext \in ALLOWED_EXTENSIONS
    /\ ~(POST.file.size > MAX_UPLOAD_SIZE)

ContractFileUploadView_post_unchecked(user, c, POST) ==
    /\ Len(files) < MaxFiles
    /\ UNCHANGED <<clock, session, requests>>
    /\ IF c \notin DOMAIN contracts
       THEN Respond("file_upload", "not_found") /\ Commit(Store)
       ELSE IF ContractFileUploadForm_is_valid(POST)
       THEN /\ Commit(upload_file(Store, user, c, POST.file, POST.is_primary,
                                  strip(POST.description)))
            /\ Respond("file_upload", "uploaded")
       ELSE Respond("file_upload", "invalid") /\ Commit(Store)

ContractFileUploadView_post(user, c, POST) ==
    /\ Len(files) < MaxFiles
    /\ UNCHANGED <<clock, session, requests>>
    /\ IF c \notin DOMAIN contracts
       THEN Respond("file_upload", "not_found") /\ Commit(Store)
       ELSE IF ~can_upload_files(user, c)
       THEN Respond("file_upload", "denied") /\ Commit(Store)
       ELSE IF ContractFileUploadForm_is_valid(POST)
       THEN /\ Commit(upload_file(Store, user, c, POST.file, POST.is_primary,
                                  strip(POST.description)))
            /\ Respond("file_upload", "uploaded")
       ELSE Respond("file_upload", "invalid") /\ Commit(Store)

\* ContractVersionForm: label required, file optional
ContractVersionForm_is_valid(POST) == strip(POST.label) # <<>>

ContractVersionCreateView_post(user, c, POST) ==
    /\ Len(versions) < MaxVersions
    /\ UNCHANGED <<clock, session, requests>>
    /\ IF c \notin DOMAIN contracts
       THEN Respond("version_create", "not_found") /\ Commit(Store)
       ELSE IF ~can_add_version(user, c)
       THEN Respond("version_create", "denied") /\ Commit(Store)
       ELSE IF ContractVersionForm_is_valid(POST)
       THEN /\ Commit(add_version(Store, user, c, strip(POST.label), POST.file))
            /\ Respond("version_create", "added")
       ELSE Respond("version_create", "invalid") /\ Commit(Store)

\* ContractShareForm: field validation, then clean()
ContractShareForm_is_valid(POST) ==
    /\ POST.share_type \in {"user", "department"}
    /\ POST.shared_with_user \in UserIds \cup {NULL}
    /\ POST.shared_with_department \in Departments \cup {NULL}
    /\ POST.access_level \in AccessLevel
    /\ ~(POST.share_type = "user" /\ POST.shared_with_user = NULL)
    /\ ~(POST.share_type = "department" /\ POST.shared_with_department = NULL)

ContractShareForm_cleaned_data(POST) ==
    IF POST.share_type = "user"
    THEN [POST EXCEPT !.shared_with_department = NULL]
    ELSE [POST EXCEPT !.shared_with_user = NULL]

ContractShareCreateView_post(user, c, POST) ==
    /\ Len(shares) < MaxShares
    /\ UNCHANGED <<clock, session, requests>>
    /\ IF c \notin DOMAIN contracts
       THEN Respond("share", "not_found") /\ Commit(Store)
       ELSE IF ~can_share_contract(user, c)
       THEN Respond("share", "denied") /\ Commit(Store)
       ELSE IF ContractShareForm_is_valid(POST)
       THEN /\ Commit(share_contract(Store, user, c,
                          ContractShareForm_cleaned_data(POST).shared_with_user,
                          ContractShareForm_cleaned_data(POST).shared_with_department,
                          ContractShareForm_cleaned_data(POST).access_level))
            /\ Respond("share", "shared")
       ELSE Respond("share", "invalid") /\ Commit(Store)

\* StatusChangeForm: new_status among the status choices, reason optional
StatusChangeForm_is_valid(POST) == POST.new_status \in ContractStatus

ContractStatusChangeView_post(user, c, POST) ==
    /\ UNCHANGED <<clock, session, requests>>
    /\ IF c \notin DOMAIN contracts
       THEN Respond("status_change", "not_found") /\ Commit(Store)
       ELSE IF ~can_change_status(user, c)
       THEN Respond("status_change", "denied") /\ Commit(Store)
       ELSE IF StatusChangeForm_is_valid(POST)
       THEN /\ Commit(change_status(Store, user, c, POST.new_status, strip(POST.reason)))
            /\ Respond("status_change", "changed")
       ELSE Respond("status_change", "invalid") /\ Commit(Store)

(***************************************************************************)
(* Initial states.  Init is the empty store; the specifications of one     *)
(* sub-workflow start from the store as create_contract leaves it.         *)
(***************************************************************************)
NoResponse == [view |-> "none", result |-> "none", form |-> NoForm]

Init ==
    /\ clock = 0
    /\ session = EmptyDict
    /\ response = NoResponse
    /\ requests = <<>>
    /\ contracts = <<>>
    /\ files = <<>>
    /\ versions = <<>>
    /\ shares = <<>>
    /\ approvals = <<>>
    /\ audit_log = <<>>

StartFrom(s) ==
    /\ session = EmptyDict
    /\ response = NoResponse
    /\ requests = <<>>
    /\ contracts = s.contracts
    /\ files = s.files
    /\ versions = s.versions
    /\ shares = s.shares
    /\ approvals = s.approvals
    /\ audit_log = s.audit_log

\* one contract owned and created by u1
OneContract ==
    create_contract(EmptyStore, User("u1"), [ContractDefaults EXCEPT !.title = "NDA"], NoFile)

InitApproval == clock = 0 /\ StartFrom(OneContract)

RequestApproval ==
    \E user \in Accounts, c \in 1..NewPk(contracts), POST \in ApprovalRequestInputs :
        ApprovalRequestCreateView_post(user, c, POST)

DecideApproval ==
    \E user \in Accounts, pk \in 1..NewPk(approvals), POST \in DecisionInputs :
        ApprovalDetailView_post(user, pk, POST)

NextApproval == RequestApproval \/ DecideApproval \/ Tick

SpecApproval == InitApproval /\ [][NextApproval]_vars

(***************************************************************************)
(* Files: uploads through the view, and ContractFile rows saved directly.  *)
(***************************************************************************)
PdfFile == [name |-> "a.pdf", ext |-> "pdf", size |-> 1024]
ExeFile == [name |-> "a.exe", ext |-> "exe", size |-> 1024]
BigFile == [name |-> "b.pdf", ext |-> "pdf", size |-> MAX_UPLOAD_SIZE + 1]

FileUploadInputs ==
    [file : {NoFile, PdfFile, ExeFile, BigFile}, is_primary : BOOLEAN,
     description : {<<>>}]

\* u1's contract without a file, and a second one created with an uploaded document
TwoContracts ==
    create_contract(OneContract, User("u1"),
                    [ContractDefaults EXCEPT !.title = "MSA", !.owner = "u2"], PdfFile)

InitFiles == clock = 0 /\ StartFrom(TwoContracts)

UploadFile ==
    \E user \in Accounts, c \in 1..NewPk(contracts), POST \in FileUploadInputs :
        ContractFileUploadView_post(user, c, POST)

\* ContractFile.objects.create(...) or instance.save() outside the service
SaveFile ==
    \E pk \in 1..NewPk(files), c \in DOMAIN contracts, is_primary \in BOOLEAN :
        LET row == IF pk \in DOMAIN files
                   THEN [files[pk] EXCEPT !.is_primary = is_primary]
                   ELSE [contract |-> c, original_filename |-> PdfFile.name,
                         is_primary |-> is_primary, description |-> <<>>,
                         uploaded_by |-> contracts[c].owner]
        IN /\ pk \in DOMAIN files \/ Len(files) < MaxFiles
           /\ files' = ContractFile_save(files, pk, row)
           /\ UNCHANGED <<contracts, versions, shares, approvals, audit_log, clock,
                          session, response, requests>>

NextFiles == UploadFile \/ SaveFile

SpecFiles == InitFiles /\ [][NextFiles]_vars

(***************************************************************************)
(* Versions: contracts created by the service, versions added by the view. *)
(***************************************************************************)
ContractInputs ==
    {[ContractDefaults EXCEPT !.title = "NDA", !.owner = o, !.status = st] :
        o \in {NULL, "u2"}, st \in {DRAFT, PENDING}}

CreateContract ==
    \E user \in {u \in Accounts : can_create_contract(u)}, data \in ContractInputs :
        /\ Len(contracts) < MaxContracts
        /\ Len(versions) < MaxVersions
        /\ Commit(create_contract(Store, user, data, NoFile))
        /\ UNCHANGED <<clock, session, response, requests>>

VersionInputs == [label : Texts, file : {NoFile, PdfFile}]

AddVersion ==
    \E user \in Accounts, c \in 1..NewPk(contracts), POST \in VersionInputs :
        ContractVersionCreateView_post(user, c, POST)

NextVersions == CreateContract \/ AddVersion

SpecVersions == Init /\ [][NextVersions]_vars

(***************************************************************************)
(* Shares: the share view, and share_contract called with any targets.     *)
(***************************************************************************)
ShareInputs ==
    [share_type : {"user", "department", ""},
     shared_with_user : {NULL, "u2"},
     shared_with_department : {NULL, "d1"},
     access_level : AccessLevel]

InitShares == clock = 0 /\ StartFrom(OneContract)

ShareView ==
    \E user \in Accounts, c \in 1..NewPk(contracts), POST \in ShareInputs :
        ContractShareCreateView_post(user, c, POST)

\* ops_service.share_contract(contract, user=..., department=...) called directly
ShareService ==
    \E user \in Accounts, c \in DOMAIN contracts, target_user \in {NULL, "u2"},
       target_department \in {NULL, "d1"}, access_level \in AccessLevel :
        /\ Len(shares) < MaxShares
        /\ Commit(share_contract(Store, user, c, target_user, target_department,
                                 access_level))
        /\ response' = [view |-> "share_contract",
                        result |-> IF share_user_or_department(
                                          [shared_with_user |-> target_user,
                                           shared_with_department |-> target_department])
                                   THEN "returned" ELSE "IntegrityError",
                        form |-> [shared_with_user |-> target_user,
                                  shared_with_department |-> target_department]]
        /\ UNCHANGED <<clock, session, requests>>

NextShares == ShareView \/ ShareService

SpecShares == InitShares /\ [][NextShares]_vars

(***************************************************************************)
(* The creation wizard (views.py, ContractCreateWizardView).  The session  *)
(* belongs to one logged-in user, "_auth_user_id"; the wizard keeps the    *)
(* cleaned data of each step under "contract_wizard" and the uploaded      *)
(* document under "contract_wizard_file" and "contract_wizard_file_name".  *)
(***************************************************************************)
STEPS == <<"method", "upload", "name", "basic", "party", "dates", "value", "owner_tags">>

\* self.STEPS.index(step) if step in self.STEPS else 0, counted from 1
STEPS_index(step) ==
    IF \E i \in DOMAIN STEPS : STEPS[i] = step
    THEN CHOOSE i \in DOMAIN STEPS : STEPS[i] = step
    ELSE 1

UPLOAD_EXTENSIONS == {"pdf", "doc", "docx", "xlsx", "xls"}
CategoryChoices ==
    {"SALES", "PROCUREMENT", "HR", "LEGAL", "FINANCE", "PARTNERSHIP", "NDA", "SERVICE",
     "OTHER"}
UNTITLED == <<"Untitled Contract">>

ContractMethodForm_is_valid(data) == data.method \in {"upload", "template"}

ContractUploadForm_is_valid(data) ==
    /\ data.file # NoFile
    /\ data.file.ext \in UPLOAD_EXTENSIONS
    /\ ~(data.file.size > 20 * 1024 * 1024)

ContractNameForm_is_valid(data) == strip(data.title) # <<>>

ContractBasicInfoForm_is_valid(data) ==
    /\ data.category \in CategoryChoices
    /\ data.bu_team \in Departments \cup {NULL}

ContractPartyInfoForm_is_valid(data) == strip(data.customer_or_vendor_name) # <<>>

\* ContractDatesForm: effective_date required, then clean()
ContractDatesForm_is_valid(data) ==
    /\ data.effective_date # None
    /\ ~(data.end_date # None /\ data.end_date[1] < data.effective_date[1])
    /\ ~(data.renewal_notice_date # None /\ data.end_date # None
         /\ data.renewal_notice_date[1] > data.end_date[1])

ContractOwnerTagsForm_is_valid(data) == data.owner \in UserIds \cup {NULL}

\* form_class(request.POST, request.FILES).is_valid() of STEP_FORMS[step]
StepForm_is_valid(step, data) ==
    CASE step = "method" -> ContractMethodForm_is_valid(data)
      [] step = "upload" -> ContractUploadForm_is_valid(data)
      [] step = "name" -> ContractNameForm_is_valid(data)
      [] step = "basic" -> ContractBasicInfoForm_is_valid(data)
      [] step = "party" -> ContractPartyInfoForm_is_valid(data)
      [] step = "dates" -> ContractDatesForm_is_valid(data)
      [] step = "owner_tags" -> ContractOwnerTagsForm_is_valid(data)

\* form.cleaned_data: CharFields are stripped, the other fields keep their value
StepForm_cleaned_data(step, data) ==
    CASE step = "name" -> [data EXCEPT !.title = strip(@)]
      [] step = "party" ->
            [data EXCEPT !.customer_or_vendor_name = strip(@)]
      [] OTHER -> data

\* _parse_decimal: None for None and '', Decimal(str(value)) otherwise, which raises
\* decimal.InvalidOperation (not caught by the except clause) on a non-number
Decimal_raises(value) == value # "10"
Decimal(value) == IF value = "10" THEN At(10) ELSE None
_parse_decimal_raises(value) == ~(value = NULL \/ value = "") /\ Decimal_raises(value)
_parse_decimal(value) == IF value = NULL \/ value = "" THEN None ELSE Decimal(value)

\* SimpleUploadedFile(file_name, file_data)
splitext(name) == IF name = "a.pdf" THEN "pdf" ELSE IF name = "a.exe" THEN "exe" ELSE ""
SimpleUploadedFile(name, content) == [name |-> name, ext |-> splitext(name), size |-> content]

request_user == User(session["_auth_user_id"])

WizardRespond(result, POST, location) ==
    response' = [view |-> "create", result |-> result, form |-> POST,
                 location |-> location]

\* contract_data of _save_contract, for the columns the store keeps
contract_data(user, wizard_data, as_draft) ==
    LET step(name) == dict_get(wizard_data, name, EmptyDict)
    IN [title |-> dict_get(step("name"), "title", UNTITLED),
        status |-> IF as_draft THEN DRAFT ELSE PENDING,
        bu_team |-> dict_get(step("basic"), "bu_team", NULL),
        category |-> dict_get(step("basic"), "category", "OTHER"),
        customer_or_vendor_name |->
            dict_get(step("party"), "customer_or_vendor_name", <<>>),
        effective_date |-> dict_get(step("dates"), "effective_date", None),
        end_date |-> dict_get(step("dates"), "end_date", None),
        renewal_notice_date |-> dict_get(step("dates"), "renewal_notice_date", None),
        value_amount |-> _parse_decimal(dict_get(step("value"), "value_amount", NULL)),
        owner |-> IF dict_get(step("owner_tags"), "owner", NULL) # NULL
                  THEN step("owner_tags").owner ELSE user.id,
        is_confidential |-> dict_get(step("owner_tags"), "is_confidential", FALSE),
        tags |-> dict_get(step("owner_tags"), "tags", {}),
        created_by |-> NULL,
        contract_number |-> <<>>]

\* _save_contract(request, wizard_data, as_draft); sess is request.session as the
\* caller left it.  An exception leaves database and session as they were (the
\* session is not saved with a 500 response).
_save_contract(user, sess, wizard_data, as_draft, POST) ==
    LET data == contract_data(user, wizard_data, as_draft)
        value_amount == dict_get(dict_get(wizard_data, "value", EmptyDict),
                                 "value_amount", NULL)
        file_data == dict_get(sess, "contract_wizard_file", 0)
        file_name == dict_get(sess, "contract_wizard_file_name", "")
        uploaded_file == IF file_data # 0 /\ file_name # ""
                         THEN SimpleUploadedFile(file_name, file_data) ELSE NoFile
    IN IF _parse_decimal_raises(value_amount)
       THEN /\ WizardRespond("InvalidOperation", POST, "")
            /\ Commit(Store)
            /\ UNCHANGED session
       ELSE /\ Commit(create_contract(Store, user, data, uploaded_file))
            /\ session' = dict_pop(dict_pop(dict_pop(sess, "contract_wizard"),
                                            "contract_wizard_file"),
                                   "contract_wizard_file_name")
            /\ WizardRespond("created", POST, "detail")

ContractCreateWizardView_get(step, reset) ==
    /\ UNCHANGED <<clock, requests>>
    /\ Commit(Store)
    /\ IF ~can_create_contract(request_user)
       THEN /\ WizardRespond("denied",
                             [current_step |-> step, action |-> "get", reset |-> reset],
                             "dashboard")
            /\ UNCHANGED session
       ELSE /\ session' = IF step = "method" /\ reset
                          THEN dict_set(session, "contract_wizard", EmptyDict)
                          ELSE session
            /\ WizardRespond("rendered",
                             [current_step |-> step, action |-> "get", reset |-> reset],
                             step)

\* wizard_data.get('method', {}).get('method')
stored_method(wizard_data) ==
    dict_get(dict_get(wizard_data, "method", EmptyDict), "method", "")

prev_step_no_skip(step, wizard_data) ==
    IF STEPS_index(step) > 1 THEN STEPS[STEPS_index(step) - 1] ELSE "method"

\* the target of Back: the step before, passing over upload for a template
prev_step(step, wizard_data) ==
    IF STEPS_index(step) > 1
    THEN IF STEPS[STEPS_index(step) - 1] = "upload"
            /\ stored_method(wizard_data) = "template"
         THEN "method" ELSE STEPS[STEPS_index(step) - 1]
    ELSE "method"

\* the target of Next from a step before the last, its data already stored
next_step(step, wizard_data, cleaned_data) ==
    IF step = "method"
    THEN IF cleaned_data.method = "template" THEN "name" ELSE "upload"
    ELSE IF STEPS[STEPS_index(step) + 1] = "upload"
            /\ stored_method(wizard_data) = "template"
         THEN "name" ELSE STEPS[STEPS_index(step) + 1]

ContractCreateWizardView_post(POST) ==
    LET user == request_user
        step == POST.current_step
        action == POST.action
        wizard_data == dict_get(session, "contract_wizard", EmptyDict)
        current_index == STEPS_index(step)
    IN
    /\ UNCHANGED <<clock, requests>>
    /\ IF ~can_create_contract(user)
       THEN WizardRespond("denied", POST, "dashboard") /\ Commit(Store)
            /\ UNCHANGED session
       ELSE IF action = "back"
       THEN /\ Commit(Store)
            /\ UNCHANGED session
            /\ WizardRespond("redirect", POST, prev_step(step, wizard_data))
       ELSE IF action = "save_draft"
       THEN _save_contract(user, session, wizard_data, TRUE, POST)
       ELSE IF step = "value"
       THEN /\ Commit(Store)
            /\ session' = dict_set(session, "contract_wizard",
                             dict_set(wizard_data, step,
                                [value_amount |-> IF POST.data.value_amount # ""
                                                  THEN POST.data.value_amount ELSE NULL]))
            /\ WizardRespond("redirect", POST, "owner_tags")
       ELSE IF StepForm_is_valid(step, POST.data)
       THEN LET stored == dict_set(wizard_data, step, StepForm_cleaned_data(step, POST.data))
                wizard_data1 ==
                    IF step = "upload"
                    THEN dict_set(stored, "uploaded_file",
                                  [name |-> POST.data.file.name, size |-> POST.data.file.size])
                    ELSE stored
                sess0 == IF step = "upload"
                         THEN dict_set(dict_set(session, "contract_wizard_file",
                                                POST.data.file.size),
                                       "contract_wizard_file_name", POST.data.file.name)
                         ELSE session
                sess1 == dict_set(sess0, "contract_wizard", wizard_data1)
            IN IF step = "method" \/ current_index < Len(STEPS)
               THEN /\ Commit(Store)
                    /\ session' = sess1
                    /\ WizardRespond("redirect", POST,
                          next_step(step, wizard_data1,
                                    StepForm_cleaned_data(step, POST.data)))
               ELSE _save_contract(user, sess1, wizard_data1, FALSE, POST)
       ELSE /\ Commit(Store)
            /\ UNCHANGED session
            /\ WizardRespond("invalid", POST, step)

(***************************************************************************)
(* The wizard driven by one logged-in user.                                *)
(***************************************************************************)
StepInputs(step) ==
    CASE step = "method" -> [method : {"upload", "template", ""}]
      [] step = "upload" -> [file : {PdfFile, ExeFile}]
      [] step = "name" -> [title : {<<"x">>, <<" ">>}]
      [] step = "basic" -> {[category |-> "NDA", bu_team |-> "d1"],
                            [category |-> "", bu_team |-> NULL]}
      [] step = "party" -> [customer_or_vendor_name : {<<"x">>, <<>>}]
      [] step = "dates" ->
            {[effective_date |-> At(1), end_date |-> At(2), renewal_notice_date |-> None],
             [effective_date |-> At(2), end_date |-> At(1), renewal_notice_date |-> None]}
      [] step = "value" -> [value_amount : {"", "abc"}]
      [] step = "owner_tags" ->
            {[owner |-> NULL, is_confidential |-> FALSE, tags |-> {}],
             [owner |-> "u2", is_confidential |-> TRUE, tags |-> {}]}

StepNames == {STEPS[i] : i \in DOMAIN STEPS}

WizardInputs ==
    UNION {[current_step : {step}, action : {"next"}, data : StepInputs(step)] :
              step \in StepNames}
    \cup [current_step : {"method", "name", "basic"}, action : {"back"},
          data : {EmptyDict}]
    \cup [current_step : {"name"}, action : {"save_draft"}, data : {EmptyDict}]

InitWizard ==
    /\ clock = 0
    /\ \E id \in UserIds : session = dict_set(EmptyDict, "_auth_user_id", id)
    /\ response = NoResponse
    /\ requests = <<>>
    /\ contracts = <<>> /\ files = <<>> /\ versions = <<>>
    /\ shares = <<>> /\ approvals = <<>> /\ audit_log = <<>>

StepsStored == DOMAIN dict_get(session, "contract_wizard", EmptyDict) \cap StepNames

WizardGet ==
    /\ Len(contracts) < MaxCommits
    /\ \E step \in {"method", "name"}, reset \in BOOLEAN :
          ContractCreateWizardView_get(step, reset)

WizardPost ==
    /\ Len(contracts) < MaxCommits
    /\ \E POST \in WizardInputs :
          /\ POST.current_step \in StepsStored \/ Cardinality(StepsStored) < MaxWizardSteps
          /\ ContractCreateWizardView_post(POST)

NextWizard == WizardGet \/ WizardPost

SpecWizard == InitWizard /\ [][NextWizard]_vars

(***************************************************************************)
(* Access control: a contract as create_contract stores it, then status    *)
(* changes, shares and approval requests through the views.                *)
(***************************************************************************)
PermContractInputs ==
    {[ContractDefaults EXCEPT !.title = "NDA", !.owner = o, !.bu_team = d,
                              !.is_confidential = conf, !.status = st] :
        o \in {NULL, "u2"}, d \in {NULL, "d1"}, conf \in BOOLEAN,
        st \in {DRAFT, PENDING}}

InitPerm ==
    /\ clock = 0
    /\ \E data \in PermContractInputs :
          StartFrom(create_contract(EmptyStore, User("u1"), data, NoFile))

StatusInputs == [new_status : ContractStatus \cup {""}, reason : {<<>>}]

PermShareInputs ==
    [share_type : {"user", "department"}, shared_with_user : {NULL, "u2"},
     shared_with_department : {NULL, "d2"}, access_level : AccessLevel]

ChangeStatus ==
    /\ Len(audit_log) < MaxOps
    /\ \E user \in Accounts, c \in 1..NewPk(contracts), POST \in StatusInputs :
          ContractStatusChangeView_post(user, c, POST)

GrantShare ==
    /\ Len(audit_log) < MaxOps
    /\ \E user \in Accounts, c \in DOMAIN contracts, POST \in PermShareInputs :
          ContractShareCreateView_post(user, c, POST)

AskApproval ==
    /\ Len(audit_log) < MaxOps
    /\ \E user \in Accounts, c \in DOMAIN contracts, POST \in ApprovalRequestInputs :
          ApprovalRequestCreateView_post(user, c, POST)

NextPerm == ChangeStatus \/ GrantShare \/ AskApproval

SpecPerm == InitPerm /\ [][NextPerm]_vars

(***************************************************************************)
(* Properties of the access-control evaluator.                             *)
(***************************************************************************)
Admins == {user \in UserProfiles : get_user_role(user) = LEGAL_ADMIN}
NonAdmins == UserProfiles \ Admins

\* C4: an administrator may view, edit and delete every contract.
C4_AdminFullAccess ==
    \A user \in Admins, c \in DOMAIN contracts :
        /\ can_view_contract(user, c)
        /\ can_edit_contract(user, c)
        /\ can_delete_contract(user, c)

\* a confidential contract past DRAFT that the superuser u3 neither owns nor created
C4_Witness ==
    \E c \in DOMAIN contracts :
        /\ contracts[c].is_confidential
        /\ contracts[c].status \notin {DRAFT, PENDING}
        /\ "u3" \notin {contracts[c].owner, contracts[c].created_by}
        /\ User("u3") \in Admins

HasShare(user, c) ==
    \/ shared_with_user(c, user, AccessLevel)
    \/ shared_with_department(c, user, AccessLevel)

\* the users C5 speaks of: not admin, not the owner, no share, no department match
Outsider(user, c) ==
    /\ user \in NonAdmins
    /\ contracts[c].owner # user.id
    /\ ~HasShare(user, c)
    /\ user.department # contracts[c].bu_team

C6_OwnerDeletesDraftOnly ==
    \A user \in NonAdmins, c \in DOMAIN contracts :
        contracts[c].owner = user.id
        => (can_delete_contract(user, c) <=> contracts[c].status = DRAFT)

\* the status of a contract created as DRAFT was changed and its owner is no admin
C6_Witness ==
    \E c \in DOMAIN contracts, k \in DOMAIN audit_log :
        /\ audit_log[k].action = "CHANGE_STATUS"
        /\ audit_log[k].contract = c
        /\ audit_log[k].metadata.old_status = DRAFT
        /\ contracts[c].status = audit_log[k].metadata.new_status
        /\ contracts[c].status # DRAFT
        /\ \E user \in NonAdmins :
              contracts[c].owner = user.id /\ ~can_delete_contract(user, c)

(***************************************************************************)
(* Properties of files, versions and shares.                               *)
(***************************************************************************)
PrimaryFiles(table, c) ==
    {i \in DOMAIN table : table[i].contract = c /\ table[i].is_primary}

\* C1: every contract has at most one primary file, and a step that writes a file
\* row as primary leaves every file of that contract that was primary before,
\* other than the written one, not primary.
C1_OnePrimaryFile ==
    /\ [](\A c \in DOMAIN contracts : Cardinality(PrimaryFiles(files, c)) <= 1)
    /\ [][\A j \in DOMAIN files' :
            (files'[j].is_primary /\ (j \notin DOMAIN files \/ files'[j] # files[j]))
            => \A i \in PrimaryFiles(files, files'[j].contract) :
                  i # j => ~files'[i].is_primary]_vars

\* two files were uploaded as primary to one contract and one of them is primary now
C1_Witness ==
    \E c \in DOMAIN contracts :
        /\ Cardinality({k \in DOMAIN audit_log :
                /\ audit_log[k].contract = c
                /\ audit_log[k].action = "ADD_FILE"
                /\ audit_log[k].metadata.is_primary}) >= 2
        /\ Cardinality(PrimaryFiles(files, c)) = 1
        /\ \E i \in DOMAIN files : files[i].contract = c /\ ~files[i].is_primary

VersionNumbers(c) ==
    {versions[i].version_number : i \in {j \in DOMAIN versions : versions[j].contract = c}}

VersionCount(c) == Cardinality({j \in DOMAIN versions : versions[j].contract = c})

\* C2: the version numbers of a contract are exactly 1..n, n its number of versions.
C2_VersionNumbers ==
    \A c \in DOMAIN contracts :
        /\ VersionCount(c) >= 1
        /\ VersionNumbers(c) = 1..VersionCount(c)

\* a contract has its initial version and two added ones
C2_Witness ==
    \E c \in DOMAIN contracts :
        /\ VersionCount(c) >= 3
        /\ \E k \in DOMAIN audit_log :
              audit_log[k].action = "ADD_VERSION" /\ audit_log[k].contract = c

ExactlyOneTarget(row) ==
    (row.shared_with_user = NULL) # (row.shared_with_department = NULL)

\* C3: every stored share has exactly one target; a valid ContractShareForm yields
\* exactly one target; share_contract with both or neither target adds no share.
C3_ShareTarget ==
    /\ [](\A i \in DOMAIN shares : ExactlyOneTarget(shares[i]))
    /\ \A POST \in ShareInputs :
          ContractShareForm_is_valid(POST)
          => ExactlyOneTarget(ContractShareForm_cleaned_data(POST))
    /\ [][(response'.view = "share_contract" /\ ~ExactlyOneTarget(response'.form))
          => shares' = shares]_vars

\* share_contract was called with both targets after a share had been stored
C3_Witness ==
    /\ shares # <<>>
    /\ response.view = "share_contract"
    /\ response.form.shared_with_user # NULL
    /\ response.form.shared_with_department # NULL

(***************************************************************************)
(* Properties of the approval sub-workflow.                                *)
(***************************************************************************)

\* the decision forms submitted with an empty or blank comment
RejectedWithoutComment == [decision : {REJECTED}, comment : {<<>>, <<" ">>}]
ApprovedWithoutComment == [decision : {APPROVED}, comment : {<<>>, <<" ">>}]

\* C7: a permitted decision request on a PENDING approval whose comment is empty:
\* REJECTED is answered as invalid and changes neither the approvals nor the audit
\* log; APPROVED is accepted, the approval becomes APPROVED and one audit entry is
\* added.  (Read: a step that is not such an outcome is not a step of the request.)
C7_RejectionNeedsComment ==
    [][/\ \/ /\ response'.result = "invalid"
              /\ approvals' = approvals
              /\ audit_log' = audit_log
           \/ \A POST \in RejectedWithoutComment, pk \in DOMAIN approvals,
                 user \in Accounts :
                 (approvals[pk].status = PENDING /\ can_approve_request(user, pk))
                 => ~ApprovalDetailView_post(user, pk, POST)
       /\ \A POST \in ApprovedWithoutComment, pk \in DOMAIN approvals,
             user \in Accounts :
             ( /\ approvals[pk].status = PENDING
               /\ can_approve_request(user, pk)
               /\ ~( /\ response'.result = "decided"
                     /\ approvals'[pk].status = APPROVED
                     /\ Len(audit_log') = Len(audit_log) + 1 ) )
             => ~ApprovalDetailView_post(user, pk, POST)]_vars

\* a rejection without comment was just refused, the approval still PENDING
C7_Witness ==
    /\ response.view = "approval_detail"
    /\ response.result = "invalid"
    /\ response.form.decision = REJECTED
    /\ strip(response.form.comment) = <<>>
    /\ \E pk \in DOMAIN approvals : approvals[pk].status = PENDING

\* C8: a step changes an approval only from PENDING to APPROVED or REJECTED; a
\* decision request on an approval that is not PENDING changes neither the
\* approvals nor the audit log; no approval is ever CANCELLED.
C8_DecidedOnce ==
    [][/\ \A pk \in DOMAIN approvals :
            approvals'[pk] # approvals[pk] =>
                /\ approvals[pk].status = PENDING
                /\ approvals'[pk].status \in {APPROVED, REJECTED}
       /\ \/ approvals' = approvals /\ audit_log' = audit_log
          \/ \A user \in Accounts, pk \in DOMAIN approvals, POST \in DecisionInputs :
                approvals[pk].status # PENDING => ~ApprovalDetailView_post(user, pk, POST)
       /\ \A pk \in DOMAIN approvals' : approvals'[pk].status # CANCELLED]_vars

\* a decision request has met an approval that was decided before
C8_Witness ==
    /\ response.view = "approval_detail"
    /\ response.result = "already_decided"
    /\ \E pk \in DOMAIN approvals : approvals[pk].status \in {APPROVED, REJECTED}

\* C9: a PENDING approval has no decided_at and an empty decision_comment; an
\* APPROVED or REJECTED approval has decided_at set.
C9_DecisionData ==
    \A pk \in DOMAIN approvals :
        /\ approvals[pk].status = PENDING =>
              approvals[pk].decided_at = None /\ approvals[pk].decision_comment = <<>>
        /\ approvals[pk].status \in {APPROVED, REJECTED} =>
              approvals[pk].decided_at # None

\* an approval was rejected, with its comment and time recorded
C9_Witness ==
    \E pk \in DOMAIN approvals :
        /\ approvals[pk].status = REJECTED
        /\ approvals[pk].decided_at # None
        /\ approvals[pk].decision_comment # <<>>

(***************************************************************************)
(* Properties of the creation wizard.                                      *)
(***************************************************************************)
\* the owner the commit was given: the final step's form, else the stored step
OwnerChosen(POST, wizard_data) ==
    IF POST.action = "next"
    THEN POST.data.owner
    ELSE dict_get(dict_get(wizard_data, "owner_tags", EmptyDict), "owner", NULL)

StatusReasonInputs ==
    [new_status : {PENDING, ACTIVE, ""}, reason : {<<>>, <<" ", "x", " ">>}]

InitStatus == clock = 0 /\ StartFrom(OneContract)

StatusView ==
    /\ Len(audit_log) <= MaxOps
    /\ \E user \in Accounts, c \in 1..NewPk(contracts), POST \in StatusReasonInputs :
          ContractStatusChangeView_post(user, c, POST)

\* ops_service.change_status(contract, new_status, reason) called directly
StatusService ==
    /\ Len(audit_log) <= MaxOps
    /\ \E user \in Accounts, c \in DOMAIN contracts, new_status \in ContractStatus,
          reason \in {<<>>, <<"x">>} :
          /\ response' = [view |-> "change_status", result |-> "returned",
                          form |-> [user |-> user.id, contract |-> c,
                                    new_status |-> new_status, reason |-> reason]]
          /\ Commit(change_status(Store, user, c, new_status, reason))
          /\ UNCHANGED <<clock, session, requests>>

NextStatus == StatusView \/ StatusService

SpecStatus == InitStatus /\ [][NextStatus]_vars

(***************************************************************************)
(* Properties of status changes.                                           *)
(***************************************************************************)
\* C11: a change_status call stores the requested status and appends exactly one
\* CHANGE_STATUS entry carrying the previous status, the new status and the
\* supplied reason; the entries already in the log stay as they were.
C11_StatusChangeLogged ==
    [][ /\ response'.view = "change_status"
           => LET call == response'.form
              IN /\ contracts'[call.contract].status = call.new_status
                 /\ audit_log' =
                       Append(audit_log,
                           [contract |-> call.contract, action |-> "CHANGE_STATUS",
                            actor |-> call.user,
                            metadata |-> [old_status |-> contracts[call.contract].status,
                                          new_status |-> call.new_status,
                                          reason |-> call.reason]])
        /\ (response'.view = "status_change" /\ response'.result = "changed")
           => /\ Len(audit_log') = Len(audit_log) + 1
              /\ SubSeq(audit_log', 1, Len(audit_log)) = audit_log
              /\ LET entry == audit_log'[Len(audit_log')]
                 IN /\ entry.action = "CHANGE_STATUS"
                    /\ entry.metadata.old_status = contracts[entry.contract].status
                    /\ entry.metadata.new_status = contracts'[entry.contract].status
      ]_vars

\* a direct call with a reason that moved the contract to another status, on a log
\* that already held an earlier status change
C11_Witness ==
    /\ response.view = "change_status"
    /\ response.form.reason # <<>>
    /\ Len(audit_log) >= 3
    /\ audit_log[Len(audit_log) - 1].action = "CHANGE_STATUS"
    /\ LET entry == audit_log[Len(audit_log)]
       IN /\ entry.metadata.old_status # entry.metadata.new_status
          /\ entry.metadata.reason = response.form.reason

(***************************************************************************)
(* views.py / forms.py: ContractUpdateView and its ContractForm.            *)
(***************************************************************************)
\* ContractForm (ModelForm over Contract): title, customer_or_vendor_name and owner
\* are required, status and category are choice fields, contract_number is optional
ContractForm_is_valid(POST) ==
    /\ POST.title # ""
    /\ POST.status \in ContractStatus
    /\ POST.category \in CategoryChoices
    /\ strip(POST.customer_or_vendor_name) # <<>>
    /\ POST.owner \in UserIds

ContractForm_cleaned_data(POST) ==
    [POST EXCEPT !.contract_number = strip(@), !.customer_or_vendor_name = strip(@)]

\* ModelForm validation writes the cleaned values onto the form's instance
construct_instance(instance, cleaned_data) == setattr_all(instance, cleaned_data)

ContractUpdateView_post(user, c, POST) ==
    /\ UNCHANGED <<clock, session, requests>>
    /\ IF c \notin DOMAIN contracts
       THEN Respond("edit", "not_found") /\ Commit(Store)
       ELSE IF ~can_edit_contract(user, c)
       THEN Respond("edit", "denied") /\ Commit(Store)
       ELSE IF ContractForm_is_valid(POST)
       THEN /\ Respond("edit", "updated")
            /\ Commit(update_contract(Store, user, c,
                          construct_instance(contracts[c], ContractForm_cleaned_data(POST)),
                          ContractForm_cleaned_data(POST)))
       ELSE Render("edit", "invalid", POST) /\ Commit(Store)

(***************************************************************************)
(* Edits: the edit view, update_contract called directly, status changes,  *)
(* and the passing of time.                                                *)
(***************************************************************************)
\* the edit form as rendered for contract 1 and as a user may alter it
EditForm ==
    [title |-> "NDA", contract_number |-> <<"CNT", "0", "1">>, status |-> DRAFT,
     category |-> "OTHER", bu_team |-> NULL, customer_or_vendor_name |-> <<"x">>,
     value_amount |-> None, effective_date |-> None, end_date |-> None,
     renewal_notice_date |-> None, owner |-> "u1", is_confidential |-> FALSE]

EditInputs ==
    {[EditForm EXCEPT !.contract_number = n, !.status = st] :
        n \in {<<"CNT", "0", "1">>, <<" ">>, <<"X">>}, st \in {DRAFT, ACTIVE}}
    \cup {[EditForm EXCEPT !.title = ""], [EditForm EXCEPT !.owner = NULL]}

UpdateInputs ==
    {[status |-> ACTIVE], [title |-> "MSA", tags |-> {"t1"}],
     [contract_number |-> <<>>, is_confidential |-> TRUE]}

InitEdit == clock = 0 /\ StartFrom(OneContract)

EditView ==
    /\ Len(audit_log) <= MaxOps
    /\ \E user \in Accounts, c \in 1..NewPk(contracts), POST \in EditInputs :
          ContractUpdateView_post(user, c, POST)

\* ops_service.update_contract(contract, data) called directly on a loaded contract
UpdateService ==
    /\ Len(audit_log) <= MaxOps
    /\ \E user \in Accounts, c \in DOMAIN contracts, data \in UpdateInputs :
          /\ response' = [view |-> "update_contract", result |-> "returned",
                          form |-> [user |-> user.id, contract |-> c]]
          /\ Commit(update_contract(Store, user, c, contracts[c], data))
          /\ UNCHANGED <<clock, session, requests>>

EditStatus ==
    /\ Len(audit_log) <= MaxOps
    /\ \E user \in Accounts, c \in DOMAIN contracts, POST \in StatusInputs :
          ContractStatusChangeView_post(user, c, POST)

NextEdit == EditView \/ UpdateService \/ EditStatus \/ Tick

SpecEdit == InitEdit /\ [][NextEdit]_vars

(***************************************************************************)
(* Properties of the contract number.                                      *)
(***************************************************************************)
\* C12 as stated: every stored contract carries the number generated for it, and no
\* later save, status change or edit gives a contract another number.
C12_NumberNeverReassigned ==
    [][\A c \in DOMAIN contracts :
          /\ contracts[c].contract_number # <<>>
          /\ contracts'[c].contract_number = contracts[c].contract_number]_vars

\* an edit through the view has replaced the generated number of a contract
C12_Witness ==
    /\ response.view = "edit"
    /\ response.result = "updated"
    /\ \E c \in DOMAIN contracts : contracts[c].contract_number = <<"X">>

(***************************************************************************)
(* Properties of the wizard's navigation and of what it writes.            *)
(***************************************************************************)
UploadOrder ==
    <<"method", "upload", "name", "basic", "party", "dates", "value", "owner_tags">>

PositionOf(step) == CHOOSE i \in DOMAIN UploadOrder : UploadOrder[i] = step

\* C13: with the stored method "upload", Next leads from each step to the one after
\* it in the order method, upload, name, basic, party, dates, value, owner_tags;
\* with the stored method "template" no Next or Back leads to upload: Next from
\* method leads to name and Back from name leads to method.
C13_WizardNavigation ==
    (response.view = "create" /\ response.result = "redirect")
    => LET POST == response.form
           method == stored_method(dict_get(session, "contract_wizard", EmptyDict))
       IN /\ (method = "upload" /\ POST.action = "next")
             => response.location = UploadOrder[PositionOf(POST.current_step) + 1]
          /\ method = "template"
             => /\ response.location # "upload"
                /\ (POST.action = "next" /\ POST.current_step = "method")
                   => response.location = "name"
                /\ (POST.action = "back" /\ POST.current_step = "name")
                   => response.location = "method"

\* Back from the name step of a template wizard
C13_Witness ==
    /\ response.view = "create"
    /\ response.result = "redirect"
    /\ response.form.action = "back"
    /\ response.form.current_step = "name"
    /\ stored_method(dict_get(session, "contract_wizard", EmptyDict)) = "template"

\* C14 as stated: a save_draft request creates one contract with status DRAFT, a valid
\* Next on owner_tags creates one with status PENDING, and every other wizard
\* request of a user allowed to create contracts leaves the database as it was.
C14_WizardWrites ==
    [][ (response'.view = "create" /\ response'.result # "denied")
        => LET POST == response'.form
               Created(status) ==
                   /\ Len(contracts') = Len(contracts) + 1
                   /\ contracts'[Len(contracts')].status = status
           IN IF POST.action = "save_draft" THEN Created(DRAFT)
              ELSE IF /\ POST.action = "next"
                      /\ POST.current_step = "owner_tags"
                      /\ StepForm_is_valid("owner_tags", POST.data)
              THEN Created(PENDING)
              ELSE /\ contracts' = contracts /\ files' = files
                   /\ versions' = versions /\ audit_log' = audit_log
      ]_vars

\* a save_draft request that ended in decimal.InvalidOperation and created nothing
C14_Witness ==
    /\ response.view = "create"
    /\ response.form.action = "save_draft"
    /\ response.result = "InvalidOperation"
    /\ contracts = <<>>

WizardKeys == {"contract_wizard", "contract_wizard_file", "contract_wizard_file_name"}

\* every wizard key of the session is still there, with every step it held
WizardDataKept ==
    \A k \in WizardKeys \cap DOMAIN session :
        /\ k \in DOMAIN session'
        /\ k = "contract_wizard" => DOMAIN session[k] \subseteq DOMAIN session'[k]

\* C15 as stated: a wizard request that did not end in a successful commit removes
\* or empties none of the wizard's session data, and a successful commit clears it.
C15_ClearedOnlyByCommit ==
    [][ response'.view = "create"
        => IF response'.result = "created"
           THEN WizardKeys \cap DOMAIN session' = {}
           ELSE WizardDataKept
      ]_vars

\* C15 amended: the same, except that GET step=method with the reset parameter
\* replaces contract_wizard by an empty dict and leaves the two file keys.
C15_ClearedByCommitOrReset ==
    [][ response'.view = "create"
        => IF response'.result = "created"
           THEN WizardKeys \cap DOMAIN session' = {}
           ELSE IF /\ response'.result = "rendered"
                   /\ response'.form.current_step = "method"
                   /\ response'.form.reset
           THEN session' = dict_set(session, "contract_wizard", EmptyDict)
           ELSE WizardDataKept
      ]_vars

\* a reset after an upload: the step data is gone, the uploaded file is still held
C15_Witness ==
    /\ response.view = "create"
    /\ response.result = "rendered"
    /\ response.form.reset
    /\ "contract_wizard_file" \in DOMAIN session
    /\ session["contract_wizard"] = EmptyDict

(***************************************************************************)
(* Deletion: Contract.delete() with the on_delete rules of models.py, next *)
(* to status changes through the view.  Only the contract created last is  *)
(* deleted and none is created afterwards, so no primary key is reused;    *)
(* the rows of the dependent tables are not addressed by position here.    *)
(***************************************************************************)
\* on_delete=models.CASCADE on the contract column of ContractFile, ContractVersion,
\* ContractShare, AdditionalApproval and AuditLog
Contract_delete(s, c) ==
    LET Other(row) == row.contract # c
    IN [contracts |-> SubSeq(s.contracts, 1, c - 1),
        files |-> SelectSeq(s.files, Other),
        versions |-> SelectSeq(s.versions, Other),
        shares |-> SelectSeq(s.shares, Other),
        approvals |-> SelectSeq(s.approvals, Other),
        audit_log |-> SelectSeq(s.audit_log, Other)]

InitDelete == clock = 0 /\ StartFrom(TwoContracts)

DeleteStatus ==
    /\ Len(audit_log) <= MaxOps + 1
    /\ \E user \in Accounts, c \in DOMAIN contracts, POST \in StatusInputs :
          ContractStatusChangeView_post(user, c, POST)

\* contract.delete() on the contract created last
DeleteContract ==
    /\ contracts # <<>>
    /\ Commit(Contract_delete(Store, Len(contracts)))
    /\ response' = [view |-> "Contract.delete", result |-> "deleted",
                    form |-> [contract |-> Len(contracts)]]
    /\ UNCHANGED <<clock, session, requests>>

NextDelete == DeleteStatus \/ DeleteContract

SpecDelete == InitDelete /\ [][NextDelete]_vars

(***************************************************************************)
(* Properties of the audit log.                                            *)
(***************************************************************************)
\* C16 as stated: the audit log is append-only; no step removes or alters an entry,
\* also not the deletion of its contract, after which the entry is kept and at most
\* its contract reference has changed.
C16_AuditAppendOnly ==
    [][ /\ Len(audit_log') >= Len(audit_log)
        /\ \A i \in DOMAIN audit_log :
              /\ audit_log'[i].action = audit_log[i].action
              /\ audit_log'[i].actor = audit_log[i].actor
              /\ audit_log'[i].metadata = audit_log[i].metadata
              /\ audit_log[i].contract \in DOMAIN contracts'
                 => audit_log'[i].contract = audit_log[i].contract
      ]_vars

\* the contract created last was deleted, and of the entries about it none is left
C16_Witness ==
    /\ response.view = "Contract.delete"
    /\ audit_log # <<>>
    /\ \A i \in DOMAIN audit_log : audit_log[i].contract # response.form.contract

(***************************************************************************)
(* The mutating services called directly, by any user on any contract.     *)
(* The response records the call: the service, the caller, the contract.   *)
(***************************************************************************)
Called(service, user, c, result) ==
    response' = [view |-> service, result |-> result,
                 form |-> [user |-> user.id, contract |-> c]]

ServiceBound == Len(audit_log) <= MaxOps

CallCreateContract ==
    /\ ServiceBound
    /\ \E user \in Accounts, data \in ContractInputs, file \in {NoFile, PdfFile} :
          /\ Called("create_contract", user, NewPk(contracts), "returned")
          /\ Commit(create_contract(Store, user, data, file))
    /\ UNCHANGED <<clock, session, requests>>

CallUpdateContract ==
    /\ ServiceBound
    /\ \E user \in Accounts, c \in DOMAIN contracts, data \in UpdateInputs :
          /\ Called("update_contract", user, c, "returned")
          /\ Commit(update_contract(Store, user, c, contracts[c], data))
    /\ UNCHANGED <<clock, session, requests>>

CallChangeStatus ==
    /\ ServiceBound
    /\ \E user \in Accounts, c \in DOMAIN contracts, new_status \in {DRAFT, ACTIVE} :
          /\ Called("change_status", user, c, "returned")
          /\ Commit(change_status(Store, user, c, new_status, <<>>))
    /\ UNCHANGED <<clock, session, requests>>

CallUploadFile ==
    /\ ServiceBound
    /\ \E user \in Accounts, c \in DOMAIN contracts, is_primary \in BOOLEAN :
          /\ Called("upload_file", user, c, "returned")
          /\ Commit(upload_file(Store, user, c, PdfFile, is_primary, <<>>))
    /\ UNCHANGED <<clock, session, requests>>

CallAddVersion ==
    /\ ServiceBound
    /\ \E user \in Accounts, c \in DOMAIN contracts, file \in {NoFile, PdfFile} :
          /\ Called("add_version", user, c, "returned")
          /\ Commit(add_version(Store, user, c, <<"x">>, file))
    /\ UNCHANGED <<clock, session, requests>>

CallShareContract ==
    /\ ServiceBound
    /\ \E user \in Accounts, c \in DOMAIN contracts, target_user \in {NULL, "u2"},
          target_department \in {NULL, "d1"} :
          /\ Called("share_contract", user, c,
                    IF share_user_or_department(
                           [shared_with_user |-> target_user,
                            shared_with_department |-> target_department])
                    THEN "returned" ELSE "IntegrityError")
          /\ Commit(share_contract(Store, user, c, target_user, target_department, VIEW))
    /\ UNCHANGED <<clock, session, requests>>

CallCreateApprovalRequest ==
    /\ ServiceBound
    /\ \E user \in Accounts, c \in DOMAIN contracts, approver \in {"u2", "u3"} :
          /\ Called("create_approval_request", user, c, "returned")
          /\ Commit(create_approval_request(Store, user, c, approver, <<"x">>))
    /\ UNCHANGED <<clock, session, requests>>

CallProcessDecision ==
    /\ ServiceBound
    /\ \E user \in Accounts, pk \in DOMAIN approvals, decision \in {APPROVED, REJECTED} :
          /\ Called("process_decision", user, approvals[pk].contract, "returned")
          /\ Commit(process_decision(Store, user, pk, approvals[pk], decision, <<"x">>))
    /\ UNCHANGED <<clock, session, requests>>

InitServices == clock = 0 /\ StartFrom(OneContract)

NextServices ==
    \/ CallCreateContract
    \/ CallUpdateContract
    \/ CallChangeStatus
    \/ CallUploadFile
    \/ CallAddVersion
    \/ CallShareContract
    \/ CallCreateApprovalRequest
    \/ CallProcessDecision

SpecServices == InitServices /\ [][NextServices]_vars

\* the rows a service call wrote, by the service's name
MutationDone(service, c) ==
    CASE service = "create_contract" ->
             Len(contracts') = Len(contracts) + 1 /\ c = Len(contracts')
      [] service \in {"update_contract", "change_status"} ->
             Len(contracts') = Len(contracts) /\ c \in DOMAIN contracts
      [] service = "upload_file" ->
             Len(files') = Len(files) + 1 /\ files'[Len(files')].contract = c
      [] service = "add_version" ->
             Len(versions') = Len(versions) + 1 /\ versions'[Len(versions')].contract = c
      [] service = "share_contract" ->
             Len(shares') = Len(shares) + 1 /\ shares'[Len(shares')].contract = c
      [] service = "create_approval_request" ->
             /\ Len(approvals') = Len(approvals) + 1
             /\ approvals'[Len(approvals')].contract = c
             /\ audit_log'[Len(audit_log')].metadata.approval_id = Len(approvals')
      [] service = "process_decision" ->
             \E pk \in DOMAIN approvals :
                 /\ audit_log'[Len(audit_log')].metadata.approval_id = pk
                 /\ approvals'[pk].contract = c
                 /\ approvals'[pk].decided_at # None
                 /\ audit_log'[Len(audit_log')].action =
                       IF approvals'[pk].status = APPROVED THEN "APPROVE" ELSE "REJECT"

\* C17: a call of one of the eight mutating services that returns appends exactly one
\* audit entry, about the affected contract and with the caller as actor, to a log
\* otherwise unchanged, and the entry comes with the call's mutation; a call that
\* raises writes neither rows nor an entry.
C17_OneEntryPerCall ==
    [][ IF response'.result = "returned"
        THEN /\ Len(audit_log') = Len(audit_log) + 1
             /\ SubSeq(audit_log', 1, Len(audit_log)) = audit_log
             /\ audit_log'[Len(audit_log')].contract = response'.form.contract
             /\ audit_log'[Len(audit_log')].actor = response'.form.user
             /\ MutationDone(response'.view, response'.form.contract)
        ELSE /\ audit_log' = audit_log
             /\ <<contracts', files', versions', shares', approvals'>>
                = <<contracts, files, versions, shares, approvals>>
      ]_vars

\* a decision processed by a user other than the one who created the approval request
C17_Witness ==
    /\ response.view = "process_decision"
    /\ Len(audit_log) = 3
    /\ audit_log[2].action = "CREATE_APPROVAL"
    /\ audit_log[3].action \in {"APPROVE", "REJECT"}
    /\ audit_log[3].actor # audit_log[2].actor
    /\ audit_log[3].actor = response.form.user

(***************************************************************************)
(* services.py: the accessibility filter of the dashboard and list queries.*)
(* A queryset is the set of the keys of its contracts.                     *)
(***************************************************************************)
_filter_without_approvals(user, queryset) ==
    IF ~user.is_authenticated THEN {}
    ELSE {c \in queryset :
            \/ contracts[c].owner = user.id
            \/ contracts[c].created_by = user.id
            \/ \E i \in DOMAIN shares :
                  shares[i].contract = c /\ shares[i].shared_with_user = user.id
            \/ /\ user.department # NULL
               /\ \/ \E i \in DOMAIN shares :
                        /\ shares[i].contract = c
                        /\ shares[i].shared_with_department = user.department
                  \/ contracts[c].bu_team = user.department
            \/ is_finance_viewer(user) /\ ~contracts[c].is_confidential}

\* queryset.filter(filter_q).distinct(); the lookup Q(owner=self.user) raises for
\* an AnonymousUser, and no contract is listed
_filter_user_accessible_contracts(user, queryset) ==
    IF ~user.is_authenticated THEN {}
    ELSE {c \in queryset :
            \/ contracts[c].owner = user.id
            \/ contracts[c].created_by = user.id
            \/ \E i \in DOMAIN shares :
                  shares[i].contract = c /\ shares[i].shared_with_user = user.id
            \/ /\ user.department # NULL
               /\ \/ \E i \in DOMAIN shares :
                        /\ shares[i].contract = c
                        /\ shares[i].shared_with_department = user.department
                  \/ contracts[c].bu_team = user.department
            \/ is_finance_viewer(user) /\ ~contracts[c].is_confidential
            \/ /\ is_legal_user(user)
               /\ \/ \E i \in DOMAIN approvals :
                        approvals[i].contract = c /\ approvals[i].approver = user.id
                  \/ \E i \in DOMAIN approvals :
                        approvals[i].contract = c /\ approvals[i].requested_by = user.id}

\* ContractQueryService._get_base_queryset, and the same test in DashboardService
_get_base_queryset(user) ==
    IF ~is_legal_admin(user)
    THEN _filter_user_accessible_contracts(user, DOMAIN contracts)
    ELSE DOMAIN contracts

(***************************************************************************)
(* Properties of the accessibility filter and of the evaluator's rules.    *)
(***************************************************************************)
\* C18: for a user who is not an administrator the accessibility filter keeps exactly
\* the contracts that can_view_contract allows; for an administrator the dashboard
\* and list queries apply no filter.
C18_FilterMatchesCanView ==
    /\ \A user \in NonAdmins, c \in DOMAIN contracts :
          c \in _filter_user_accessible_contracts(user, DOMAIN contracts)
          <=> can_view_contract(user, c)
    /\ \A user \in Admins : _get_base_queryset(user) = DOMAIN contracts

\* a confidential contract listed for a LEGAL_USER only because of an approval
\* request, and not listed for a finance viewer
C18_Witness ==
    LET user == [User("u2") EXCEPT !.groups = {"legal_user"}, !.department = NULL]
        other == [User("u3") EXCEPT !.is_superuser = FALSE, !.is_staff = FALSE,
                                    !.groups = {"Finance Viewer"}]
    IN \E c \in DOMAIN contracts :
        /\ contracts[c].is_confidential
        /\ has_approval_for(c, user)
        /\ c \notin _filter_without_approvals(user, DOMAIN contracts)
        /\ c \in _get_base_queryset(user)
        /\ c \notin _get_base_queryset(other)

\* all five permissions as the owner has them
OwnerRights(user, c) ==
    /\ can_view_contract(user, c)
    /\ can_edit_contract(user, c)
    /\ can_change_status(user, c)
    /\ can_share_contract(user, c)
    /\ can_delete_contract(user, c) <=> contracts[c].status = DRAFT

SharesReaching(user, c) ==
    {i \in DOMAIN shares :
        /\ shares[i].contract = c
        /\ \/ shares[i].shared_with_user = user.id
           \/ user.department # NULL /\ shares[i].shared_with_department = user.department}

Visitors == Accounts \cup {AnonymousUser}

StatusPosts == {[new_status |-> ACTIVE, reason |-> <<>>]}
SharePosts ==
    {[share_type |-> "user", shared_with_user |-> "u2", shared_with_department |-> NULL,
      access_level |-> level] : level \in AccessLevel}
UploadPosts == {[file |-> PdfFile, is_primary |-> TRUE, description |-> <<>>]}
VersionPosts == {[label |-> <<"x">>, file |-> NoFile]}
DecisionPosts == {[decision |-> APPROVED, comment |-> <<>>]}
EditPosts == {[EditForm EXCEPT !.title = "MSA"]}

InitEndpoints == clock = 0 /\ StartFrom(OneContract)

PostStatus ==
    /\ Len(audit_log) <= MaxOps
    /\ \E user \in Visitors, c \in DOMAIN contracts, POST \in StatusPosts :
          ContractStatusChangeView_post(user, c, POST)

PostShare ==
    /\ Len(audit_log) <= MaxOps
    /\ \E user \in Visitors, c \in DOMAIN contracts, POST \in SharePosts :
          ContractShareCreateView_post(user, c, POST)

PostUpload ==
    /\ Len(audit_log) <= MaxOps
    /\ \E user \in Visitors, c \in DOMAIN contracts, POST \in UploadPosts :
          ContractFileUploadView_post(user, c, POST)

PostVersion ==
    /\ Len(audit_log) <= MaxOps
    /\ \E user \in Visitors, c \in DOMAIN contracts, POST \in VersionPosts :
          ContractVersionCreateView_post(user, c, POST)

PostApprovalRequest ==
    /\ Len(audit_log) <= MaxOps
    /\ \E user \in Visitors, c \in DOMAIN contracts, POST \in ApprovalRequestInputs :
          ApprovalRequestCreateView_post(user, c, POST)

PostDecision ==
    /\ Len(audit_log) <= MaxOps
    /\ \E user \in Visitors, pk \in DOMAIN approvals, POST \in DecisionPosts :
          ApprovalDetailView_post(user, pk, POST)

PostEdit ==
    /\ Len(audit_log) <= MaxOps
    /\ \E user \in Visitors, c \in DOMAIN contracts, POST \in EditPosts :
          ContractUpdateView_post(user, c, POST)

NextEndpoints ==
    \/ PostStatus \/ PostShare \/ PostUpload \/ PostVersion
    \/ PostApprovalRequest \/ PostDecision \/ PostEdit

SpecEndpoints == InitEndpoints /\ [][NextEndpoints]_vars

(***************************************************************************)
(* Properties of refused requests.                                         *)
(***************************************************************************)
\* the request was refused and the store is as it was
Refused ==
    /\ response'.result = "denied"
    /\ UNCHANGED <<contracts, files, versions, shares, approvals, audit_log>>

\* C21: a request to the status-change, share, file-upload, version-add,
\* approval-request, approval-decision or edit endpoint from an actor for whom the
\* endpoint's can_* predicate is false is answered "denied" and leaves contracts,
\* files, versions, shares, approvals and the audit log as they were.
C21_DeniedNoMutation ==
    [][/\ \A user \in Visitors, c \in DOMAIN contracts :
            /\ ( /\ ~can_change_status(user, c)
                 /\ \E POST \in StatusPosts : ContractStatusChangeView_post(user, c, POST) )
               => Refused
            /\ ( /\ ~can_share_contract(user, c)
                 /\ \E POST \in SharePosts : ContractShareCreateView_post(user, c, POST) )
               => Refused
            /\ ( /\ ~can_upload_files(user, c)
                 /\ \E POST \in UploadPosts : ContractFileUploadView_post(user, c, POST) )
               => Refused
            /\ ( /\ ~can_add_version(user, c)
                 /\ \E POST \in VersionPosts : ContractVersionCreateView_post(user, c, POST) )
               => Refused
            /\ ( /\ ~can_manage_approvals(user, c)
                 /\ \E POST \in ApprovalRequestInputs :
                       ApprovalRequestCreateView_post(user, c, POST) )
               => Refused
            /\ ( /\ ~can_edit_contract(user, c)
                 /\ \E POST \in EditPosts : ContractUpdateView_post(user, c, POST) )
               => Refused
       /\ \A user \in Visitors, pk \in DOMAIN approvals :
            ( /\ ~can_approve_request(user, pk)
              /\ \E POST \in DecisionPosts : ApprovalDetailView_post(user, pk, POST) )
            => Refused
       /\ Refused => response'.view \in
             {"status_change", "share", "file_upload", "version_create",
              "approval_request", "approval_detail", "edit"}]_vars

\* a visitor who is neither the approver nor an administrator was refused a
\* decision on the approval requested from u2, which is still PENDING
C21_Witness ==
    /\ response.view = "approval_detail"
    /\ response.result = "denied"
    /\ \E pk \in DOMAIN approvals :
          approvals[pk].status = PENDING /\ approvals[pk].approver = "u2"

(***************************************************************************)
(* Pages: views.py DashboardView and ContractDetailView, behind the        *)
(* LoginRequiredMixin that views.py defines and middleware.py.             *)
(***************************************************************************)
\* AuthenticationMiddleware: request.user of the browser session
session_user ==
    IF "_auth_user_id" \in DOMAIN session
    THEN User(session["_auth_user_id"]) ELSE AnonymousUser

\* MockUserMiddleware.get_mock_user
demo_user ==
    [id |-> "demo_user", is_authenticated |-> TRUE, is_superuser |-> TRUE,
     role |-> NoAttr, groups |-> {}, is_staff |-> TRUE, department |-> NULL]

\* MockUserMiddleware.__call__, where the project's settings install it
MockUserMiddleware(user, installed) ==
    IF installed /\ ~user.is_authenticated THEN demo_user ELSE user

\* class LoginRequiredMixin: pass -- the mixin of views.py lets every request in
LoginRequiredMixin_dispatch(user) == TRUE

\* get_pending_action_contracts: the query filters on owner=self.user, which raises
\* TypeError for an AnonymousUser
get_pending_action_contracts(user) ==
    {c \in DOMAIN contracts :
        contracts[c].owner = user.id /\ contracts[c].status \in {DRAFT, PENDING}}

DashboardView_get(user) ==
    /\ UNCHANGED <<clock, session, requests>>
    /\ Commit(Store)
    /\ IF ~LoginRequiredMixin_dispatch(user)
       THEN Render("dashboard", "redirect_login", [user |-> user.id])
       ELSE IF ~user.is_authenticated
       THEN Render("dashboard", "TypeError", [user |-> user.id])
       ELSE Render("dashboard", "rendered",
                   [user |-> user.id,
                    pending_action |-> get_pending_action_contracts(user)])

ContractDetailView_get(user, c) ==
    /\ UNCHANGED <<clock, session, requests>>
    /\ IF ~LoginRequiredMixin_dispatch(user)
       THEN Render("detail", "redirect_login", [user |-> user.id, contract |-> c])
            /\ Commit(Store)
       ELSE IF c \notin DOMAIN contracts
       THEN Render("detail", "not_found", [user |-> user.id, contract |-> c])
            /\ Commit(Store)
       ELSE IF ~can_view_contract(user, c)
       THEN Render("detail", "redirect_list", [user |-> user.id, contract |-> c])
            /\ Commit(Store)
       ELSE /\ Render("detail", "rendered", [user |-> user.id, contract |-> c])
            /\ Commit(AuditLogService_log(Store, c, "VIEW", user, EmptyDict))

\* a browser session that is logged in or not, over one stored contract
InitPages ==
    /\ clock = 0
    /\ response = NoResponse
    /\ requests = <<>>
    /\ session \in {EmptyDict} \cup
          {dict_set(EmptyDict, "_auth_user_id", id) : id \in UserIds}
    /\ \E data \in PermContractInputs :
          LET s == create_contract(EmptyStore, User("u1"), data, NoFile)
          IN /\ contracts = s.contracts /\ files = s.files /\ versions = s.versions
             /\ shares = s.shares /\ approvals = s.approvals
             /\ audit_log = s.audit_log

DashboardGet ==
    \E installed \in BOOLEAN :
        DashboardView_get(MockUserMiddleware(session_user, installed))

DetailGet ==
    /\ Len(audit_log) <= MaxOps
    /\ \E installed \in BOOLEAN, c \in 1..NewPk(contracts) :
          ContractDetailView_get(MockUserMiddleware(session_user, installed), c)

NextPages == DashboardGet \/ DetailGet

SpecPages == InitPages /\ [][NextPages]_vars

(***************************************************************************)
(* Properties of the pages.                                                *)
(***************************************************************************)
\* C22 as stated: a dashboard request of a session that is not logged in is answered
\* with the redirect to login, and one of a logged-in session with the page; a
\* detail request of a logged-in user for whom can_view_contract is false is
\* answered with a redirect and adds no entry to the audit log.
C22_PagesNeedLogin ==
    [][/\ response'.view = "dashboard"
          => response'.result =
                IF session_user.is_authenticated THEN "rendered" ELSE "redirect_login"
       /\ ( /\ response'.view = "detail"
            /\ session_user.is_authenticated
            /\ response'.form.contract \in DOMAIN contracts
            /\ ~can_view_contract(session_user, response'.form.contract) )
          => /\ response'.result = "redirect_list"
             /\ audit_log' = audit_log]_vars

\* a session that is not logged in asked for the dashboard and was not redirected
C22_Witness ==
    /\ ~session_user.is_authenticated
    /\ response.view = "dashboard"
    /\ response.result # "redirect_login"

(***************************************************************************)
(* Dates: contracts committed by the wizard, then edited through           *)
(* ContractUpdateView by the user of the session.                          *)
(***************************************************************************)
Dates == {None, At(1), At(2)}

DateStepInputs ==
    [effective_date : {At(1), At(2)}, end_date : Dates, renewal_notice_date : Dates]

DateWizardInputs ==
    [current_step : {"dates"}, action : {"next"}, data : DateStepInputs]
    \cup [current_step : {"dates"}, action : {"save_draft"}, data : {EmptyDict}]
    \cup {[current_step |-> "owner_tags", action |-> "next",
           data |-> [owner |-> NULL, is_confidential |-> FALSE, tags |-> {}]]}

DateEditInputs ==
    {[EditForm EXCEPT !.effective_date = effective_date, !.end_date = end_date,
                      !.renewal_notice_date = renewal_notice_date] :
        effective_date \in Dates, end_date \in Dates, renewal_notice_date \in Dates}

DatesWizardPost ==
    /\ Len(contracts) < MaxCommits
    /\ \E POST \in DateWizardInputs : ContractCreateWizardView_post(POST)

DatesEdit ==
    /\ Len(audit_log) <= MaxOps
    /\ \E c \in DOMAIN contracts, POST \in DateEditInputs :
          ContractUpdateView_post(session_user, c, POST)

NextDates == DatesWizardPost \/ DatesEdit

SpecDates == InitWizard /\ [][NextDates]_vars

(***************************************************************************)
(* Properties of the stored dates.                                         *)
(***************************************************************************)
\* C23 as stated: every stored contract that has an effective_date and an end_date
\* has end_date >= effective_date, and every stored contract that has a
\* renewal_notice_date and an end_date has renewal_notice_date <= end_date.
C23_DatesOrdered ==
    \A c \in DOMAIN contracts :
        /\ (contracts[c].effective_date # None /\ contracts[c].end_date # None)
           => contracts[c].end_date[1] >= contracts[c].effective_date[1]
        /\ (contracts[c].renewal_notice_date # None /\ contracts[c].end_date # None)
           => contracts[c].renewal_notice_date[1] <= contracts[c].end_date[1]

\* an edit has stored an end_date that lies before the effective_date
C23_Witness ==
    /\ response.view = "edit"
    /\ response.result = "updated"
    /\ \E c \in DOMAIN contracts :
          /\ contracts[c].effective_date # None /\ contracts[c].end_date # None
          /\ contracts[c].end_date[1] < contracts[c].effective_date[1]

(***************************************************************************)
(* Concurrent requests.  No view or service opens a transaction or takes a *)
(* lock, so every ORM statement of a request commits on its own and the    *)
(* statements of two requests interleave.  A request in flight is a record *)
(* of `requests`: its operation, its position pc and its local variables.  *)
(***************************************************************************)
Arrive(request) ==
    /\ Len(requests) < MaxRequests
    /\ requests' = Append(requests, request)

InFlight(op, pc) == {r \in DOMAIN requests : requests[r].op = op /\ requests[r].pc = pc}

AllDone == \A r \in DOMAIN requests : requests[r].pc = "done"

\* the row _create_contract_file hands to ContractFile.objects.create
file_row(request) ==
    [contract |-> request.contract, original_filename |-> request.file.name,
     is_primary |-> request.is_primary, description |-> <<>>,
     uploaded_by |-> request.user]

(***************************************************************************)
(* Concurrent uploads: ContractFileUploadView.post, upload_file and        *)
(* ContractFile.save, statement by statement.                              *)
(***************************************************************************)
InitFileRace == clock = 0 /\ StartFrom(TwoContracts)

\* the view: permission check and form validation, then upload_file is entered
UploadArrives ==
    \E user \in Accounts, c \in DOMAIN contracts, is_primary \in BOOLEAN :
        /\ can_upload_files(user, c)
        /\ Arrive([op |-> "upload_file", pc |-> "save", user |-> user.id,
                   contract |-> c, file |-> PdfFile, is_primary |-> is_primary])
        /\ UNCHANGED <<contracts, files, versions, shares, approvals, audit_log, clock,
                       session, response>>

\* ContractFile.save: the UPDATE of the other primary files
UploadDemotes ==
    \E r \in InFlight("upload_file", "save") :
        /\ files' = demote_other_primaries(files, NewPk(files), file_row(requests[r]))
        /\ requests' = [requests EXCEPT ![r].pc = "insert"]
        /\ UNCHANGED <<contracts, versions, shares, approvals, audit_log, clock,
                       session, response>>

\* ContractFile.save: super().save(), the INSERT of the new row
UploadInserts ==
    \E r \in InFlight("upload_file", "insert") :
        /\ files' = Put(files, NewPk(files), file_row(requests[r]))
        /\ requests' = [requests EXCEPT ![r].pc = "log"]
        /\ UNCHANGED <<contracts, versions, shares, approvals, audit_log, clock,
                       session, response>>

\* upload_file: the ADD_FILE entry, then the view redirects
UploadLogs ==
    \E r \in InFlight("upload_file", "log") :
        LET request == requests[r]
        IN /\ Commit(AuditLogService_log(Store, request.contract, "ADD_FILE",
                        User(request.user),
                        [filename |-> request.file.name,
                         is_primary |-> request.is_primary]))
           /\ requests' = [requests EXCEPT ![r].pc = "done"]
           /\ response' = [view |-> "file_upload", result |-> "uploaded",
                           form |-> [request |-> r]]
           /\ UNCHANGED <<clock, session>>

NextFileRace == UploadArrives \/ UploadDemotes \/ UploadInserts \/ UploadLogs

SpecFileRace == InitFileRace /\ [][NextFileRace]_vars

(***************************************************************************)
(* Properties of concurrent uploads.                                       *)
(***************************************************************************)
\* C24 as stated: once the concurrent uploads have finished, whatever the
\* interleaving of their statements, no contract has more than one file with
\* is_primary = TRUE.
C24_OnePrimaryAfterRace ==
    AllDone => \A c \in DOMAIN contracts : Cardinality(PrimaryFiles(files, c)) <= 1

\* two uploads of a primary file for one contract have finished and both files
\* are primary
C24_Witness ==
    /\ Len(requests) = 2 /\ AllDone
    /\ requests[1].contract = requests[2].contract
    /\ requests[1].is_primary /\ requests[2].is_primary
    /\ Cardinality(PrimaryFiles(files, requests[1].contract)) >= 2

(***************************************************************************)
(* Concurrent add_version requests: ContractVersionCreateView.post and     *)
(* add_version, statement by statement.                                    *)
(***************************************************************************)
InitVersionRace == clock = 0 /\ StartFrom(TwoContracts)

\* the view: permission check and form validation, then add_version is entered
VersionArrives ==
    \E user \in Accounts, c \in DOMAIN contracts, label \in {<<"x">>, <<"y">>} :
        /\ can_add_version(user, c)
        /\ Arrive([op |-> "add_version", pc |-> "read", user |-> user.id,
                   contract |-> c, label |-> label, next_version |-> 0,
                   result |-> ""])
        /\ UNCHANGED <<contracts, files, versions, shares, approvals, audit_log, clock,
                       session, response>>

\* last_version = contract.versions.order_by('-version_number').first()
VersionReads ==
    \E r \in InFlight("add_version", "read") :
        /\ requests' = [requests EXCEPT
               ![r].next_version = next_version_number(versions, requests[r].contract),
               ![r].pc = "insert"]
        /\ UNCHANGED <<contracts, files, versions, shares, approvals, audit_log, clock,
                       session, response>>

\* ContractVersion.objects.create(...): the INSERT, or the IntegrityError of
\* unique_together that ends the request with a server error
VersionInserts ==
    \E r \in InFlight("add_version", "insert") :
        LET request == requests[r]
            table == ContractVersion_create(versions,
                         [contract |-> request.contract,
                          version_number |-> request.next_version,
                          label |-> request.label, file |-> "",
                          created_by |-> request.user])
        IN /\ versions' = table
           /\ IF table # versions
              THEN /\ requests' = [requests EXCEPT ![r].pc = "log"]
                   /\ UNCHANGED response
              ELSE /\ requests' = [requests EXCEPT ![r].pc = "done",
                                                   ![r].result = "IntegrityError"]
                   /\ response' = [view |-> "version_create",
                                   result |-> "IntegrityError",
                                   form |-> [request |-> r]]
           /\ UNCHANGED <<contracts, files, shares, approvals, audit_log, clock,
                          session>>

\* add_version: the ADD_VERSION entry, then the view redirects with its success
\* message
VersionLogs ==
    \E r \in InFlight("add_version", "log") :
        LET request == requests[r]
        IN /\ Commit(AuditLogService_log(Store, request.contract, "ADD_VERSION",
                        User(request.user),
                        [version_number |-> request.next_version,
                         label |-> request.label]))
           /\ requests' = [requests EXCEPT ![r].pc = "done", ![r].result = "added"]
           /\ response' = [view |-> "version_create", result |-> "added",
                           form |-> [request |-> r]]
           /\ UNCHANGED <<clock, session>>

NextVersionRace == VersionArrives \/ VersionReads \/ VersionInserts \/ VersionLogs

SpecVersionRace == InitVersionRace /\ [][NextVersionRace]_vars

(***************************************************************************)
(* Properties of concurrent add_version requests.                          *)
(***************************************************************************)
\* C25: whatever the interleaving of concurrent add_version requests, no two
\* stored versions of one contract have the same version_number, and every request
\* that has reported success has its version stored, under the number it computed,
\* and its ADD_VERSION entry in the audit log.
C25_VersionRace ==
    /\ \A i, j \in DOMAIN versions :
          (i # j /\ versions[i].contract = versions[j].contract)
          => versions[i].version_number # versions[j].version_number
    /\ \A r \in DOMAIN requests :
          (requests[r].pc = "done" /\ requests[r].result = "added")
          => /\ \E v \in DOMAIN versions :
                   /\ versions[v].contract = requests[r].contract
                   /\ versions[v].version_number = requests[r].next_version
                   /\ versions[v].label = requests[r].label
                   /\ versions[v].created_by = requests[r].user
             /\ \E a \in DOMAIN audit_log :
                   /\ audit_log[a].action = "ADD_VERSION"
                   /\ audit_log[a].contract = requests[r].contract
                   /\ audit_log[a].actor = requests[r].user
                   /\ audit_log[a].metadata.version_number = requests[r].next_version

\* two requests for one contract read the same last version before either
\* inserted: one has added its version, the other ended in the IntegrityError
C25_Witness ==
    /\ Len(requests) = 2 /\ AllDone
    /\ requests[1].contract = requests[2].contract
    /\ requests[1].next_version = requests[2].next_version
    /\ {requests[1].result, requests[2].result} = {"added", "IntegrityError"}

(***************************************************************************)
(* Concurrent decisions: ApprovalDetailView.post and process_decision,     *)
(* statement by statement.                                                 *)
(***************************************************************************)
\* u1's contract with an approval requested from u2
ContractWithApproval ==
    create_approval_request(OneContract, User("u1"), 1, "u2", <<"x">>)

InitDecisionRace == clock = 0 /\ StartFrom(ContractWithApproval)

DecisionRaceInputs ==
    {[decision |-> APPROVED, comment |-> <<>>],
     [decision |-> REJECTED, comment |-> <<" ", "x", " ">>]}

\* the view: the approval is loaded, then the permission check, the PENDING check
\* and the form validation run on the loaded row
DecisionArrives ==
    \E user \in Accounts, pk \in DOMAIN approvals, POST \in DecisionRaceInputs :
        LET request == [op |-> "decision", user |-> user.id, approval_id |-> pk,
                        approval |-> approvals[pk],
                        decision |-> ApprovalDecisionForm_cleaned_data(POST).decision,
                        comment |-> ApprovalDecisionForm_cleaned_data(POST).comment,
                        pc |-> "save", result |-> ""]
        IN /\ can_approve_request(user, pk)
           /\ ApprovalDecisionForm_is_valid(POST)
           /\ IF approvals[pk].status # PENDING
              THEN /\ Arrive([request EXCEPT !.pc = "done",
                                             !.result = "already_decided"])
                   /\ response' = [view |-> "approval_detail",
                                   result |-> "already_decided",
                                   form |-> [request |-> Len(requests) + 1]]
              ELSE Arrive(request) /\ UNCHANGED response
           /\ UNCHANGED <<contracts, files, versions, shares, approvals, audit_log,
                          clock, session>>

\* process_decision: the fields are set on the loaded row and approval.save()
\* writes the row back
DecisionSaves ==
    \E r \in InFlight("decision", "save") :
        LET request == requests[r]
            row == [request.approval EXCEPT !.status = request.decision,
                                            !.decision_comment = request.comment,
                                            !.decided_at = At(clock)]
        IN /\ approvals' = Put(approvals, request.approval_id, row)
           /\ requests' = [requests EXCEPT ![r].pc = "log", ![r].approval = row]
           /\ UNCHANGED <<contracts, files, versions, shares, audit_log, clock,
                          session, response>>

\* process_decision: the APPROVE or REJECT entry, then the view redirects with its
\* success message
DecisionLogs ==
    \E r \in InFlight("decision", "log") :
        LET request == requests[r]
        IN /\ Commit(AuditLogService_log(Store, request.approval.contract,
                        IF request.decision = APPROVED THEN "APPROVE" ELSE "REJECT",
                        User(request.user),
                        [approval_id |-> request.approval_id,
                         comment |-> request.comment]))
           /\ requests' = [requests EXCEPT ![r].pc = "done", ![r].result = "decided"]
           /\ response' = [view |-> "approval_detail", result |-> "decided",
                           form |-> [request |-> r]]
           /\ UNCHANGED <<clock, session>>

NextDecisionRace == DecisionArrives \/ DecisionSaves \/ DecisionLogs \/ Tick

SpecDecisionRace == InitDecisionRace /\ [][NextDecisionRace]_vars

(***************************************************************************)
(* Properties of concurrent decisions.                                     *)
(***************************************************************************)
\* the APPROVE and REJECT entries of the audit log for one approval
DecisionEvents(pk) ==
    {a \in DOMAIN audit_log :
        /\ audit_log[a].action \in {"APPROVE", "REJECT"}
        /\ audit_log[a].metadata.approval_id = pk}

\* the requests that have written a decision on one approval
Deciders(pk) ==
    {r \in DOMAIN requests :
        requests[r].approval_id = pk /\ requests[r].pc \in {"log", "done"}
        /\ requests[r].result # "already_decided"}

\* C26 as stated: whatever the interleaving of concurrent decision requests, at most
\* one request writes status, decided_at and decision_comment of an approval, and
\* once the requests have finished a decided approval has exactly one APPROVE or
\* REJECT entry in the audit log.
C26_DecidedOnceUnderRace ==
    \A pk \in DOMAIN approvals :
        /\ Cardinality(Deciders(pk)) <= 1
        /\ Cardinality(DecisionEvents(pk)) <= 1
        /\ (AllDone /\ approvals[pk].status # PENDING)
           => Cardinality(DecisionEvents(pk)) = 1

\* two requests passed the PENDING check before either saved: both have decided,
\* the second overwrote the decision of the first, and the log holds two entries
C26_Witness ==
    /\ Len(requests) = 2 /\ AllDone
    /\ requests[1].result = "decided" /\ requests[2].result = "decided"
    /\ requests[1].decision # requests[2].decision
    /\ \E pk \in DOMAIN approvals : Cardinality(DecisionEvents(pk)) = 2

(***************************************************************************)
(* The wizard's commit, statement by statement: _save_contract and         *)
(* create_contract.  A statement can fail (a database or storage error);   *)
(* the exception leaves create_contract and the view, and what the earlier *)
(* statements wrote stays, since no transaction encloses them.             *)
(***************************************************************************)
\* sessions as the wizard leaves them before a commit, without and with a
\* buffered upload
WizardSessions ==
    LET steps(tags) ==
            [name |-> [title |-> <<"x">>],
             owner_tags |-> [owner |-> NULL, is_confidential |-> FALSE, tags |-> tags]]
        plain(id, tags) ==
            dict_set(dict_set(EmptyDict, "_auth_user_id", id),
                     "contract_wizard", steps(tags))
        uploaded(id, tags) ==
            dict_set(dict_set(plain(id, tags), "contract_wizard_file", PdfFile.size),
                     "contract_wizard_file_name", PdfFile.name)
    IN {plain(id, tags) : id \in {"u1", "u3"}, tags \in {{}, {"t1"}}}
       \cup {uploaded(id, tags) : id \in {"u1", "u3"}, tags \in {{}, {"t1"}}}

CommitPosts ==
    {[current_step |-> "name", action |-> "save_draft", data |-> EmptyDict],
     [current_step |-> "owner_tags", action |-> "next",
      data |-> [owner |-> "u2", is_confidential |-> FALSE, tags |-> {}]]}

InitCommit ==
    /\ clock = 0
    /\ session \in WizardSessions
    /\ response = NoResponse
    /\ requests = <<>>
    /\ contracts = <<>> /\ files = <<>> /\ versions = <<>>
    /\ shares = <<>> /\ approvals = <<>> /\ audit_log = <<>>

\* post() up to the call of create_contract: the final step is stored, contract_data
\* and the uploaded file are built from the session
CommitArrives ==
    \E POST \in CommitPosts :
        LET wizard_data == dict_get(session, "contract_wizard", EmptyDict)
            wizard_data1 ==
                IF POST.action = "next"
                THEN dict_set(wizard_data, POST.current_step,
                              StepForm_cleaned_data(POST.current_step, POST.data))
                ELSE wizard_data
            file_data == dict_get(session, "contract_wizard_file", 0)
            file_name == dict_get(session, "contract_wizard_file_name", "")
        IN /\ can_create_contract(request_user)
           /\ POST.action = "next" => StepForm_is_valid(POST.current_step, POST.data)
           /\ Arrive([op |-> "create_contract", pc |-> "contract",
                      user |-> request_user.id,
                      data |-> contract_data(request_user, wizard_data1,
                                             POST.action = "save_draft"),
                      file |-> IF file_data # 0 /\ file_name # ""
                               THEN SimpleUploadedFile(file_name, file_data)
                               ELSE NoFile,
                      pk |-> 0, result |-> "", failed_at |-> ""])
           /\ UNCHANGED <<contracts, files, versions, shares, approvals, audit_log,
                          clock, session, response>>

\* contract = Contract.objects.create(**data)
CommitInsertsContract ==
    \E r \in InFlight("create_contract", "contract") :
        LET request == requests[r]
            pk == NewPk(contracts)
            row == [request.data EXCEPT
                       !.created_by = request.user,
                       !.owner = IF request.data.owner = NULL
                                 THEN request.user ELSE request.data.owner,
                       !.tags = {}]
        IN /\ contracts' = Contract_save(contracts, pk, row)
           /\ requests' = [requests EXCEPT ![r].pk = pk, ![r].pc = "tags"]
           /\ UNCHANGED <<files, versions, shares, approvals, audit_log, clock,
                          session, response>>

\* if tags: contract.tags.set(tags)
CommitSetsTags ==
    \E r \in InFlight("create_contract", "tags") :
        LET request == requests[r]
        IN /\ contracts' = IF request.data.tags # {}
                           THEN [contracts EXCEPT ![request.pk].tags = request.data.tags]
                           ELSE contracts
           /\ requests' = [requests EXCEPT ![r].pc = "file"]
           /\ UNCHANGED <<files, versions, shares, approvals, audit_log, clock,
                          session, response>>

\* if file: self._create_contract_file(contract, file, is_primary=True)
CommitCreatesFile ==
    \E r \in InFlight("create_contract", "file") :
        LET request == requests[r]
        IN /\ Commit(IF request.file # NoFile
                     THEN _create_contract_file(Store, User(request.user), request.pk,
                                                request.file, TRUE, "")
                     ELSE Store)
           /\ requests' = [requests EXCEPT ![r].pc = "version"]
           /\ UNCHANGED <<clock, session, response>>

\* ContractVersion.objects.create(contract=contract, version_number=1, ...)
CommitCreatesVersion ==
    \E r \in InFlight("create_contract", "version") :
        LET request == requests[r]
        IN /\ versions' = ContractVersion_create(versions,
                              [contract |-> request.pk, version_number |-> 1,
                               label |-> "Initial Version", file |-> "",
                               created_by |-> request.user])
           /\ requests' = [requests EXCEPT ![r].pc = "audit"]
           /\ UNCHANGED <<contracts, files, shares, approvals, audit_log, clock,
                          session, response>>

\* AuditLogService.log(CREATE_CONTRACT); back in _save_contract the session keys
\* are popped and the view redirects to the new contract
CommitLogs ==
    \E r \in InFlight("create_contract", "audit") :
        LET request == requests[r]
        IN /\ Commit(AuditLogService_log(Store, request.pk, "CREATE_CONTRACT",
                        User(request.user),
                        [title |-> contracts[request.pk].title,
                         status |-> contracts[request.pk].status]))
           /\ requests' = [requests EXCEPT ![r].pc = "done", ![r].result = "created"]
           /\ session' = dict_pop(dict_pop(dict_pop(session, "contract_wizard"),
                                           "contract_wizard_file"),
                                  "contract_wizard_file_name")
           /\ response' = [view |-> "create", result |-> "created",
                           form |-> [request |-> r]]
           /\ UNCHANGED clock

\* the statement the request is about to run raises: the exception propagates
\* through create_contract, _save_contract and post, nothing is rolled back and
\* the session is not saved
CommitFails ==
    \E r \in DOMAIN requests :
        /\ requests[r].op = "create_contract"
        /\ requests[r].pc \in {"contract", "tags", "file", "version", "audit"}
        /\ requests[r].pc = "tags" => requests[r].data.tags # {}
        /\ requests[r].pc = "file" => requests[r].file # NoFile
        /\ requests' = [requests EXCEPT ![r].result = "error",
                                        ![r].failed_at = requests[r].pc,
                                        ![r].pc = "done"]
        /\ response' = [view |-> "create", result |-> "error",
                        form |-> [request |-> r]]
        /\ UNCHANGED <<contracts, files, versions, shares, approvals, audit_log,
                       clock, session>>

NextCommit ==
    \/ CommitArrives \/ CommitInsertsContract \/ CommitSetsTags \/ CommitCreatesFile
    \/ CommitCreatesVersion \/ CommitLogs \/ CommitFails

SpecCommit == InitCommit /\ [][NextCommit]_vars

(***************************************************************************)
(* Properties of the commit.                                               *)
(***************************************************************************)
\* the rows a commit has written: its contract and the rows that refer to it
RowsOfCommit(request) ==
    [contracts |-> {c \in DOMAIN contracts : c = request.pk},
     files |-> {f \in DOMAIN files : files[f].contract = request.pk},
     versions |-> {v \in DOMAIN versions : versions[v].contract = request.pk},
     audit_log |-> {a \in DOMAIN audit_log : audit_log[a].contract = request.pk}]

NoRows == [contracts |-> {}, files |-> {}, versions |-> {}, audit_log |-> {}]

\* C27 as stated: a commit in which a statement of create_contract failed has left
\* no Contract, ContractFile, ContractVersion or AuditLog row in the store.
C27_AllOrNothing ==
    \A r \in DOMAIN requests :
        (requests[r].op = "create_contract" /\ requests[r].result = "error")
        => RowsOfCommit(requests[r]) = NoRows

\* the insert of the initial version failed after the contract and its primary file
\* were stored: both rows remain, without a version and without an audit entry
C27_Witness ==
    \E r \in DOMAIN requests :
        /\ requests[r].result = "error"
        /\ requests[r].failed_at = "version"
        /\ RowsOfCommit(requests[r]).contracts # {}
        /\ RowsOfCommit(requests[r]).files # {}
        /\ RowsOfCommit(requests[r]).versions = {}
        /\ RowsOfCommit(requests[r]).audit_log = {}

(***************************************************************************)
(* Role resolution: get_user_role applied to every shape of user.          *)
(***************************************************************************)
InitRoles == clock = 0 /\ StartFrom(EmptyStore)

ResolveRole ==
    \E user \in UserProfiles :
        /\ response' = [view |-> "get_user_role", result |-> get_user_role(user),
                        form |-> user]
        /\ Commit(Store)
        /\ UNCHANGED <<clock, session, requests>>

NextRoles == ResolveRole

SpecRoles == InitRoles /\ [][NextRoles]_vars

(***************************************************************************)
(* Properties of role resolution.                                          *)
(***************************************************************************)
\* the role the groups of a user give, NULL when they give none
GroupRole(user) ==
    IF {"Legal Admin", "legal_admin"} \cap user.groups # {} THEN LEGAL_ADMIN
    ELSE IF {"Legal User", "legal_user"} \cap user.groups # {} THEN LEGAL_USER
    ELSE IF {"Finance Viewer", "finance_viewer"} \cap user.groups # {} THEN FINANCE_VIEWER
    ELSE NULL

\* the ordered fallback: each source is consulted when the ones before it yield no
\* role
FallbackRole(user) ==
    IF user.is_superuser THEN LEGAL_ADMIN
    ELSE IF user.role \in ALL_ROLES THEN user.role
    ELSE IF GroupRole(user) # NULL THEN GroupRole(user)
    ELSE IF user.is_staff THEN LEGAL_USER
    ELSE USER

\* C28 as stated: get_user_role gives no role to an unauthenticated user and, to an
\* authenticated one, the role of the first source that yields one in the order
\* superuser, role attribute, groups, staff, default; the result for an
\* authenticated user is one of the four roles.
C28_RoleFallback ==
    response.view = "get_user_role"
    => LET user == response.form
       IN IF ~user.is_authenticated
          THEN response.result = NULL
          ELSE /\ response.result = FallbackRole(user)
               /\ response.result \in ALL_ROLES

\* a member of the Legal User group whose role attribute is None was given no role
C28_Witness ==
    /\ response.view = "get_user_role"
    /\ response.form.is_authenticated
    /\ response.form.role = NULL
    /\ "Legal User" \in response.form.groups
    /\ response.result = NULL

(***************************************************************************)
(* Properties of the wizard's commits with respect to the steps taken.     *)
(***************************************************************************)
\* the steps a run of the given method has to pass
RequiredSteps(method) ==
    {"method", "name", "basic", "party", "dates", "value", "owner_tags"}
    \cup (IF method = "upload" THEN {"upload"} ELSE {})

\* the contract a wizard request has just committed
Committed == contracts'[Len(contracts')]

\* C29 as stated: when a wizard request commits a contract with status PENDING, the
\* session's wizard data, with the step of the request just stored, holds every
\* required step of the run.
C29_PendingAfterAllSteps ==
    [][LET wizard_data == dict_get(session, "contract_wizard", EmptyDict)
       IN ( /\ response'.view = "create" /\ response'.result = "created"
            /\ Committed.status = PENDING )
          => RequiredSteps(stored_method(wizard_data))
                \subseteq DOMAIN wizard_data \cup {response'.form.current_step}]_vars

\* a PENDING contract was committed by a POST of the last step alone: it has no
\* customer and no effective date
C29_Witness ==
    /\ response.view = "create" /\ response.result = "created"
    /\ response.form.current_step = "owner_tags"
    /\ contracts[Len(contracts)].status = PENDING
    /\ contracts[Len(contracts)].customer_or_vendor_name = <<>>
    /\ contracts[Len(contracts)].effective_date = None

\* C30 as stated: a contract committed by a run whose stored method is 'template'
\* has no ContractFile.
C30_TemplateHasNoFile ==
    [][LET wizard_data == dict_get(session, "contract_wizard", EmptyDict)
       IN ( /\ response'.view = "create" /\ response'.result = "created"
            /\ stored_method(wizard_data) = "template" )
          => \A f \in DOMAIN files' : files'[f].contract # Len(contracts')]_vars

\* a contract was committed with a primary file although no upload step was in the
\* wizard data when the request arrived
C30_Witness ==
    /\ response.view = "create" /\ response.result = "created"
    /\ response.form.current_step = "owner_tags"
    /\ \E f \in DOMAIN files :
          files[f].contract = Len(contracts) /\ files[f].is_primary
    /\ \E a \in DOMAIN audit_log : audit_log[a].action = "CREATE_CONTRACT"
    /\ "contract_wizard_file" \notin DOMAIN session

====
